---------------------------- MODULE Spec2Model ----------------------------
(***************************************************************************)
(* Release bookkeeping of mozilla/Relman: the version.txt and CHANGELOG.md *)
(* edits of as-merge-day.py.  File contents are sequences of one-character *)
(* strings; offsets are Python's 0-based offsets, so that s[i+1] is the    *)
(* character at offset i and SubSeq(s, a+1, b) is the slice s[a:b].        *)
(***************************************************************************)
EXTENDS Integers, Sequences, FiniteSets, TLC

VARIABLES
  changelog,     \* content of CHANGELOG.md
  version_txt,   \* content of version.txt
  version,       \* release version N of this run (args.version / detected)
  date_str,      \* date stamp of this run
  prev_version,  \* prev_version argument of update_changelog_release
  op,            \* the operation that ran last
  prev_op,       \* the operation that ran before it
  md,            \* CHANGELOG.md as read by the last changelog operation
  original,      \* version.txt as read by the last version operation
  changed,       \* "changed" returned by the last operation
  compare_url,   \* compare_url returned by the last changelog operation
  new_value,     \* new_value returned by the last version operation
  wrote,         \* whether the last operation called write_file
  steps,         \* number of operations applied so far
  trail,         \* version strings: the first input, then each call's result
  calls,         \* the version functions called so far, in order
  raised,        \* the exception that ended the last call or the run, or ""
  pc,            \* the position main() has reached
  head,          \* version.txt and CHANGELOG.md at HEAD of the checked-out branch
  pushed,        \* the branches pushed to origin by this run, in order
  is_esr,        \* esr-release-branch.py: the branch argument is not "release"
  current_version,     \* current_version of main()
  base_version,        \* base_version of main()
  tag,                 \* tag of main()
  relbranch,           \* relbranch of main()
  commit,              \* the commit the tag was resolved to
  created_from,        \* the commit the release branch was created from
  new_version,         \* new_version of esr-release-branch.py main()
  ios_next_version,    \* next_version of ios-merge-day.py main()
  version_display_txt, \* content of browser/config/version_display.txt
  milestone_txt,       \* content of config/milestone.txt
  written,             \* the files written by this run
  commits              \* the messages of the commits made by this run

\* the state the changelog and version engines work on
engine_vars == <<changelog, version_txt, version, date_str, prev_version, op, prev_op,
                 md, original, changed, compare_url, new_value, wrote, steps>>

\* the state of the version arithmetic
arith_vars == <<trail, calls>>

\* the state of a run of main()
flow_vars == <<pc, head, pushed, is_esr, current_version, base_version, tag, relbranch,
               commit, created_from, new_version, ios_next_version,
               version_display_txt, milestone_txt,
               written, commits>>

vars == <<engine_vars, arith_vars, raised, flow_vars>>

-----------------------------------------------------------------------------
(* Bounds of the model *)

MaxBlocks == 3

MaxSteps == 2

MaxPieces == 4

-----------------------------------------------------------------------------
(* Characters and strings *)

Min(S) == CHOOSE x \in S : \A y \in S : x <= y

Digits == <<"0", "1", "2", "3", "4", "5", "6", "7", "8", "9">>

IsDigit(c) == c \in {Digits[k] : k \in 1..10}

\* \s of Python's re on the characters that occur here
IsSpace(c) == c \in {" ", "\n", "\t", "\r"}

UpperToLower ==
  ("A" :> "a") @@ ("B" :> "b") @@ ("C" :> "c") @@ ("D" :> "d") @@ ("E" :> "e") @@
  ("F" :> "f") @@ ("G" :> "g") @@ ("H" :> "h") @@ ("I" :> "i") @@ ("J" :> "j") @@
  ("K" :> "k") @@ ("L" :> "l") @@ ("M" :> "m") @@ ("N" :> "n") @@ ("O" :> "o") @@
  ("P" :> "p") @@ ("Q" :> "q") @@ ("R" :> "r") @@ ("S" :> "s") @@ ("T" :> "t") @@
  ("U" :> "u") @@ ("V" :> "v") @@ ("W" :> "w") @@ ("X" :> "x") @@ ("Y" :> "y") @@
  ("Z" :> "z")

\* case folding of re.IGNORECASE
Lower(c) == IF c \in DOMAIN UpperToLower THEN UpperToLower[c] ELSE c

\* f"{n}" of an int
RECURSIVE IntToStr(_)
IntToStr(n) ==
  IF n < 0 THEN <<"-">> \o IntToStr(0 - n)
  ELSE IF n < 10 THEN <<Digits[n + 1]>>
  ELSE IntToStr(n \div 10) \o <<Digits[(n % 10) + 1]>>

RECURSIVE Concat(_)
Concat(ss) == IF ss = <<>> THEN <<>> ELSE Head(ss) \o Concat(Tail(ss))

\* the literal lit occurs in s at offset i
lit_at(s, i, lit) ==
  /\ i >= 0
  /\ i + Len(lit) <= Len(s)
  /\ SubSeq(s, i + 1, i + Len(lit)) = lit

\* the same, ignoring case
lit_at_ignorecase(s, i, lit) ==
  /\ i >= 0
  /\ i + Len(lit) <= Len(s)
  /\ \A k \in 1..Len(lit) : Lower(s[i + k]) = Lower(lit[k])

\* offset reached by a greedy \s* from offset i
RECURSIVE skip_ws(_, _)
skip_ws(s, i) == IF i < Len(s) /\ IsSpace(s[i + 1]) THEN skip_ws(s, i + 1) ELSE i

\* offset reached by a greedy \d* from offset i
RECURSIVE skip_digits(_, _)
skip_digits(s, i) == IF i < Len(s) /\ IsDigit(s[i + 1]) THEN skip_digits(s, i + 1) ELSE i

\* ^ under re.MULTILINE: the start of the string or just after a newline
line_start(s, i) == i = 0 \/ (i <= Len(s) /\ s[i] = "\n")

\* str.strip(): the offsets of the stripped slice
RECURSIVE rskip_ws(_, _)
rskip_ws(s, j) == IF j > 0 /\ IsSpace(s[j]) THEN rskip_ws(s, j - 1) ELSE j

strip(s) ==
  LET a == skip_ws(s, 0)
      b == rskip_ws(s, Len(s))
  IN IF a >= b THEN <<>> ELSE SubSeq(s, a + 1, b)

-----------------------------------------------------------------------------
(* Literals of as-merge-day.py *)

InProgressParen ==
  <<"(", "I", "n", " ", "p", "r", "o", "g", "r", "e", "s", "s", ")">>

Placeholder ==
  <<"[", "F", "u", "l", "l", " ", "C", "h", "a", "n", "g", "e", "l", "o", "g", "]",
    "(", "I", "n", " ", "p", "r", "o", "g", "r", "e", "s", "s", ")">>

FullChangelogOpen ==
  <<"[", "F", "u", "l", "l", " ", "C", "h", "a", "n", "g", "e", "l", "o", "g", "]",
    "(">>

CompareUrlBase ==
  <<"h", "t", "t", "p", "s", ":", "/", "/", "g", "i", "t", "h", "u", "b", ".", "c",
    "o", "m", "/", "m", "o", "z", "i", "l", "l", "a", "/", "a", "p", "p", "l", "i",
    "c", "a", "t", "i", "o", "n", "-", "s", "e", "r", "v", "i", "c", "e", "s", "/",
    "c", "o", "m", "p", "a", "r", "e", "/", "v">>

NewTopTail ==
  <<" ", "(", "I", "n", " ", "p", "r", "o", "g", "r", "e", "s", "s", ")", "\n", "\n",
    "[", "F", "u", "l", "l", " ", "C", "h", "a", "n", "g", "e", "l", "o", "g", "]",
    "(", "I", "n", " ", "p", "r", "o", "g", "r", "e", "s", "s", ")", "\n", "\n">>

-----------------------------------------------------------------------------
(* Regular expressions of the changelog functions *)

NoMatch == [start |-> -1, end |-> -1]

\* the header pattern without its status token: rf"^#\s*v{version}\.0"
header_re_match_end_any_status(s, i, ver) ==
  IF ~(line_start(s, i) /\ lit_at(s, i, <<"#">>)) THEN -1
  ELSE LET j == skip_ws(s, i + 1)
           lit == <<"v">> \o IntToStr(ver) \o <<".", "0">>
       IN IF lit_at_ignorecase(s, j, lit) THEN j + Len(lit) ELSE -1

\* the header pattern with any minor number: rf"^#\s*v{version}\.\d+\s*\(In progress\)"
header_re_match_end_any_minor(s, i, ver) ==
  IF ~(line_start(s, i) /\ lit_at(s, i, <<"#">>)) THEN -1
  ELSE LET j == skip_ws(s, i + 1)
           lit == <<"v">> \o IntToStr(ver) \o <<".">>
       IN IF ~lit_at_ignorecase(s, j, lit) THEN -1
          ELSE LET d == skip_digits(s, j + Len(lit))
                   k == skip_ws(s, d)
               IN IF d > j + Len(lit) /\ lit_at_ignorecase(s, k, InProgressParen)
                  THEN k + Len(InProgressParen)
                  ELSE -1

\* rf"^#\s*v{version}\.0\s*\(In progress\)" with IGNORECASE | MULTILINE, tried
\* at offset i: the end offset of the match, or -1.  Each \s* is followed by a
\* character that is no whitespace, so the greedy choice is the only one.
header_re_match_end(s, i, ver) ==
  IF ~(line_start(s, i) /\ lit_at(s, i, <<"#">>)) THEN -1
  ELSE LET j == skip_ws(s, i + 1)
           lit == <<"v">> \o IntToStr(ver) \o <<".", "0">>
       IN IF ~lit_at_ignorecase(s, j, lit) THEN -1
          ELSE LET k == skip_ws(s, j + Len(lit))
               IN IF lit_at_ignorecase(s, k, InProgressParen)
                  THEN k + Len(InProgressParen)
                  ELSE -1

\* header_re.search(s, pos): the leftmost match at an offset >= pos
header_re_search(s, pos, ver) ==
  LET hits == {i \in pos..(Len(s) - 1) :
                 s[i + 1] = "#" /\ header_re_match_end(s, i, ver) # -1}
  IN IF hits = {} THEN NoMatch
     ELSE [start |-> Min(hits), end |-> header_re_match_end(s, Min(hits), ver)]

\* r"^#\s*v\d+\.\d+\s*\(.+?\)" with MULTILINE (case-sensitive) matches at offset i
any_header_re_match_at(s, i) ==
  /\ line_start(s, i)
  /\ lit_at(s, i, <<"#">>)
  /\ LET j == skip_ws(s, i + 1)
     IN /\ lit_at(s, j, <<"v">>)
        /\ LET d1 == skip_digits(s, j + 1)
           IN /\ d1 > j + 1
              /\ lit_at(s, d1, <<".">>)
              /\ LET d2 == skip_digits(s, d1 + 1)
                 IN /\ d2 > d1 + 1
                    /\ LET k == skip_ws(s, d2)
                       IN /\ lit_at(s, k, <<"(">>)
                          /\ \E e \in (k + 2)..(Len(s) - 1) :
                               /\ s[e + 1] = ")"
                               /\ \A m \in (k + 1)..(e - 1) : s[m + 1] # "\n"

\* any_header_re.search(s, pos): the start of the leftmost match, or -1
any_header_re_search(s, pos) ==
  LET hits == {i \in pos..(Len(s) - 1) : s[i + 1] = "#" /\ any_header_re_match_at(s, i)}
  IN IF hits = {} THEN -1 ELSE Min(hits)

\* re.subn(header pattern, repl, section, count=1, IGNORECASE | MULTILINE)
re_subn_header(section, ver, repl) ==
  LET m == header_re_search(section, 0, ver)
  IN IF m.start = -1 THEN [text |-> section, n |-> 0]
     ELSE [text |-> SubSeq(section, 1, m.start) \o repl
                      \o SubSeq(section, m.end + 1, Len(section)),
           n |-> 1]

\* the leftmost offset >= pos of r"\[Full Changelog\]\((?:In progress)\)"
\* with IGNORECASE, or -1
placeholder_search(s, pos) ==
  LET hits == {i \in pos..(Len(s) - 1) :
                 s[i + 1] = "[" /\ lit_at_ignorecase(s, i, Placeholder)}
  IN IF hits = {} THEN -1 ELSE Min(hits)

\* re.subn of the placeholder without count=1: every placeholder is replaced
RECURSIVE re_subn_placeholder_all(_, _)
re_subn_placeholder_all(section, repl) ==
  LET i == placeholder_search(section, 0)
  IN IF i = -1 THEN [text |-> section, n |-> 0]
     ELSE LET rest == re_subn_placeholder_all(
                        SubSeq(section, i + Len(Placeholder) + 1, Len(section)), repl)
          IN [text |-> SubSeq(section, 1, i) \o repl \o rest.text, n |-> rest.n + 1]

\* re.subn(placeholder pattern, repl, section, count=1, IGNORECASE)
re_subn_placeholder(section, repl) ==
  LET i == placeholder_search(section, 0)
  IN IF i = -1 THEN [text |-> section, n |-> 0]
     ELSE [text |-> SubSeq(section, 1, i) \o repl
                      \o SubSeq(section, i + Len(Placeholder) + 1, Len(section)),
           n |-> 1]

-----------------------------------------------------------------------------
(* Formatted strings of the changelog functions *)

\* f"# v{version}.0 (_{date_str}_)"
new_header_fmt(ver, date) ==
  <<"#", " ", "v">> \o IntToStr(ver) \o <<".", "0", " ", "(", "_">> \o date
    \o <<"_", ")">>

\* compare_url_fmt with the two versions in the wrong order
compare_url_fmt_swapped(prev, ver) ==
  CompareUrlBase \o IntToStr(ver) \o <<".", "0", ".", ".", ".", "v">>
    \o IntToStr(prev) \o <<".", "0">>

\* f"https://github.com/mozilla/application-services/compare/v{prev_version}.0...v{version}.0"
compare_url_fmt(prev, ver) ==
  CompareUrlBase \o IntToStr(prev) \o <<".", "0", ".", ".", ".", "v">>
    \o IntToStr(ver) \o <<".", "0">>

\* f"[Full Changelog]({compare_url})"
new_fc_fmt(url) == FullChangelogOpen \o url \o <<")">>

\* the new top section headed by the version that is closed
new_top_fmt_same_version(ver) ==
  <<"#", " ", "v">> \o IntToStr(ver) \o <<".", "0">> \o NewTopTail

\* f"# v{version+1}.0 (In progress)\n\n[Full Changelog](In progress)\n\n"
new_top_fmt(ver) ==
  <<"#", " ", "v">> \o IntToStr(ver + 1) \o <<".", "0">> \o NewTopTail

-----------------------------------------------------------------------------
(* PHASE A: update_changelog_release *)

\* section_end with only in-progress headers taken as boundaries
section_end_of_in_progress_only(doc, header_end) ==
  LET hits == {i \in header_end..(Len(doc) - 1) :
                 /\ any_header_re_match_at(doc, i)
                 /\ \E k \in i..(Len(doc) - 1) :
                      /\ lit_at_ignorecase(doc, k, InProgressParen)
                      /\ \A m \in i..k : doc[m + 1] # "\n"}
  IN IF hits = {} THEN Len(doc) ELSE Min(hits)

\* section_end: the start of the next version header after the matched
\* header, or len(md)
section_end_of(doc, header_end) ==
  LET nxt == any_header_re_search(doc, header_end)
  IN IF nxt # -1 THEN nxt ELSE Len(doc)

\* The two substitutions on the section; the result carries the new section
\* text and the two substitution counts.
close_out_section(section, ver, date, prev) ==
  LET h == re_subn_header(section, ver, new_header_fmt(ver, date))
      f == re_subn_placeholder(h.text, new_fc_fmt(compare_url_fmt(prev, ver)))
  IN [text |-> f.text, n_header_subs |-> h.n, n_fc_subs |-> f.n]

\* changed set by the placeholder substitution alone
changed_of_fc_only(n_header_subs, n_fc_subs) == n_fc_subs > 0

\* changed: set by either substitution
changed_of(n_header_subs, n_fc_subs) == (n_header_subs > 0) \/ (n_fc_subs > 0)

\* update_changelog_release with the substitutions run on the whole file
\* instead of the section
update_changelog_release_whole_file(doc, ver, date, prev) ==
  LET header_match == header_re_search(doc, 0, ver)
  IN IF header_match.start = -1
     THEN [content |-> doc, changed |-> FALSE,
           compare_url |-> compare_url_fmt(prev, ver), wrote |-> FALSE]
     ELSE LET r == close_out_section(doc, ver, date, prev)
              chg == changed_of(r.n_header_subs, r.n_fc_subs)
          IN [content |-> r.text, changed |-> chg,
              compare_url |-> compare_url_fmt(prev, ver), wrote |-> chg]

\* update_changelog_release reporting a change when the header is missing
update_changelog_release_missing_changed(doc, ver, date, prev) ==
  LET header_match == header_re_search(doc, 0, ver)
  IN IF header_match.start = -1
     THEN [content |-> doc, changed |-> TRUE,
           compare_url |-> compare_url_fmt(prev, ver), wrote |-> TRUE]
     ELSE LET section_start == header_match.start
              section_end == section_end_of(doc, header_match.end)
              r == close_out_section(SubSeq(doc, section_start + 1, section_end),
                                     ver, date, prev)
          IN [content |-> SubSeq(doc, 1, section_start) \o r.text
                            \o SubSeq(doc, section_end + 1, Len(doc)),
              changed |-> TRUE,
              compare_url |-> compare_url_fmt(prev, ver),
              wrote |-> TRUE]

\* (content of CHANGELOG.md afterwards, changed, compare_url, whether
\* write_file was called)
update_changelog_release(doc, ver, date, prev) ==
  LET header_match == header_re_search(doc, 0, ver)
  IN IF header_match.start = -1
     THEN [content |-> doc, changed |-> FALSE,
           compare_url |-> compare_url_fmt(prev, ver), wrote |-> FALSE]
     ELSE LET section_start == header_match.start
              section_end == section_end_of(doc, header_match.end)
              before == SubSeq(doc, 1, section_start)
              section == SubSeq(doc, section_start + 1, section_end)
              after == SubSeq(doc, section_end + 1, Len(doc))
              r == close_out_section(section, ver, date, prev)
              chg == changed_of(r.n_header_subs, r.n_fc_subs)
          IN [content |-> IF chg THEN before \o r.text \o after ELSE doc,
              changed |-> chg,
              compare_url |-> compare_url_fmt(prev, ver),
              wrote |-> chg]

-----------------------------------------------------------------------------
(* PHASE B: update_changelog_main_start_next *)

\* update_changelog_main_start_next closing out after the prepend: the
\* substitutions run on the new block followed by the section
update_changelog_main_start_next_close_after(doc, ver, date) ==
  LET header_match == header_re_search(doc, 0, ver)
  IN IF header_match.start = -1
     THEN [content |-> new_top_fmt(ver) \o doc, changed |-> TRUE,
           compare_url |-> compare_url_fmt(ver - 1, ver), wrote |-> TRUE]
     ELSE LET section_start == header_match.start
              section_end == section_end_of(doc, header_match.end)
              before == SubSeq(doc, 1, section_start)
              section == SubSeq(doc, section_start + 1, section_end)
              after == SubSeq(doc, section_end + 1, Len(doc))
              r == close_out_section(new_top_fmt(ver) \o section, ver, date, ver - 1)
          IN [content |-> before \o r.text \o after,
              changed |-> TRUE,
              compare_url |-> compare_url_fmt(ver - 1, ver),
              wrote |-> TRUE]

\* start-next returning early, as update_changelog_release does, when the
\* in-progress header is missing
update_changelog_main_start_next_skip_missing(doc, ver, date) ==
  LET header_match == header_re_search(doc, 0, ver)
  IN IF header_match.start = -1
     THEN [content |-> doc, changed |-> FALSE,
           compare_url |-> compare_url_fmt(ver - 1, ver), wrote |-> FALSE]
     ELSE LET section_start == header_match.start
              section_end == section_end_of(doc, header_match.end)
              before == SubSeq(doc, 1, section_start)
              section == SubSeq(doc, section_start + 1, section_end)
              after == SubSeq(doc, section_end + 1, Len(doc))
              r == close_out_section(section, ver, date, ver - 1)
          IN [content |-> before \o new_top_fmt(ver) \o r.text \o after,
              changed |-> TRUE,
              compare_url |-> compare_url_fmt(ver - 1, ver),
              wrote |-> TRUE]

update_changelog_main_start_next(doc, ver, date) ==
  LET header_match == header_re_search(doc, 0, ver)
  IN IF header_match.start = -1
     THEN [content |-> new_top_fmt(ver) \o doc, changed |-> TRUE,
           compare_url |-> compare_url_fmt(ver - 1, ver), wrote |-> TRUE]
     ELSE LET section_start == header_match.start
              section_end == section_end_of(doc, header_match.end)
              before == SubSeq(doc, 1, section_start)
              section == SubSeq(doc, section_start + 1, section_end)
              after == SubSeq(doc, section_end + 1, Len(doc))
              r == close_out_section(section, ver, date, ver - 1)
          IN [content |-> before \o new_top_fmt(ver) \o r.text \o after,
              changed |-> TRUE,
              compare_url |-> compare_url_fmt(ver - 1, ver),
              wrote |-> TRUE]

-----------------------------------------------------------------------------
(* version.txt: update_version_txt_release and update_version_txt_main *)

\* the pattern compiled with re.IGNORECASE: "A1" is dropped as well
re_sub_a1_ignorecase(s) ==
  LET hits == {i \in 0..(Len(s) - 2) :
                 lit_at_ignorecase(s, i, <<"a", "1">>) /\ skip_ws(s, i + 2) = Len(s)}
  IN IF hits = {} THEN s ELSE SubSeq(s, 1, Min(hits))

\* re.sub(r"a1\s*$", "", s): the greedy \s* runs to the end of s, where $
\* holds, so the pattern matches at offset i when "a1" stands there and only
\* whitespace follows; the match reaches the end of s and no second one follows.
re_sub_a1(s) ==
  LET hits == {i \in 0..(Len(s) - 2) :
                 lit_at(s, i, <<"a", "1">>) /\ skip_ws(s, i + 2) = Len(s)}
  IN IF hits = {} THEN s ELSE SubSeq(s, 1, Min(hits))

\* (content of version.txt afterwards, changed, new_value, whether write_file
\* was called)
update_version_txt_release(text) ==
  LET stripped == strip(text)
      nv == re_sub_a1(stripped)
      chg == (nv # stripped)
  IN [content |-> IF chg THEN nv \o <<"\n">> ELSE text,
      changed |-> chg,
      new_value |-> nv,
      wrote |-> chg]

\* f"{next_version}.0a1\n"
target_fmt(next_version) == IntToStr(next_version) \o <<".", "0", "a", "1", "\n">>

\* update_version_txt_main comparing the stripped texts
update_version_txt_main_stripped_compare(current, next_version) ==
  LET target == target_fmt(next_version)
  IN IF strip(current) = strip(target)
     THEN [content |-> current, changed |-> FALSE,
           new_value |-> strip(target), wrote |-> FALSE]
     ELSE [content |-> target, changed |-> TRUE,
           new_value |-> strip(target), wrote |-> TRUE]

update_version_txt_main(current, next_version) ==
  LET target == target_fmt(next_version)
  IN IF current = target
     THEN [content |-> current, changed |-> FALSE,
           new_value |-> strip(target), wrote |-> FALSE]
     ELSE [content |-> target, changed |-> TRUE,
           new_value |-> strip(target), wrote |-> TRUE]

-----------------------------------------------------------------------------
(* Version arithmetic of esr-release-branch.py and ios-merge-day.py.  A call *)
(* yields [raised, value]: raised names the exception that ended it ("" when *)
(* it returned) and value is the string it returned.                        *)

\* str.split("."): the parts between the dots, "" included
RECURSIVE split_dot(_)
split_dot(s) ==
  LET dots == {i \in 1..Len(s) : s[i] = "."}
  IN IF dots = {} THEN <<s>>
     ELSE <<SubSeq(s, 1, Min(dots) - 1)>> \o split_dot(SubSeq(s, Min(dots) + 1, Len(s)))

\* the value of a run of decimal digits and underscores, left to right
RECURSIVE digits_value(_, _)
digits_value(s, acc) ==
  IF s = <<>> THEN acc
  ELSE IF Head(s) = "_" THEN digits_value(Tail(s), acc)
  ELSE digits_value(Tail(s),
                    10 * acc + (CHOOSE d \in 0..9 : Digits[d + 1] = Head(s)))

\* int(s) of Python: surrounding whitespace is dropped, one sign is allowed,
\* and the digits may be grouped by single underscores; anything else raises
\* ValueError.
int(s) ==
  LET t == strip(s)
      signed == t # <<>> /\ Head(t) \in {"+", "-"}
      body == IF signed THEN Tail(t) ELSE t
      wellformed ==
        /\ body # <<>>
        /\ IsDigit(body[1])
        /\ IsDigit(body[Len(body)])
        /\ \A k \in 1..Len(body) : IsDigit(body[k]) \/ body[k] = "_"
        /\ \A k \in 1..(Len(body) - 1) : ~(body[k] = "_" /\ body[k + 1] = "_")
  IN IF ~wellformed THEN [raised |-> "ValueError", value |-> 0]
     ELSE [raised |-> "",
           value |-> IF signed /\ Head(t) = "-" THEN 0 - digits_value(body, 0)
                     ELSE digits_value(body, 0)]

Returned(text) == [raised |-> "", value |-> text]

Raised(exc) == [raised |-> exc, value |-> <<>>]

\* bump_version appending ".0" to a two-component version
bump_version_append_zero(prev) ==
  LET parts == split_dot(prev)
  IN IF Len(parts) = 2
     THEN Returned(parts[1] \o <<".">> \o parts[2] \o <<".", "0">>)
     ELSE IF Len(parts) = 3
     THEN IF int(parts[3]).raised # "" THEN Raised("ValueError")
          ELSE Returned(parts[1] \o <<".">> \o parts[2] \o <<".">>
                          \o IntToStr(int(parts[3]).value + 1))
     ELSE Raised("ValueError")

\* bump_version taking the first three components of a longer version
bump_version_first_three(prev) ==
  LET parts == split_dot(prev)
  IN IF Len(parts) = 2
     THEN Returned(parts[1] \o <<".">> \o parts[2] \o <<".", "1">>)
     ELSE IF Len(parts) >= 3
     THEN IF int(parts[3]).raised # "" THEN Raised("ValueError")
          ELSE Returned(parts[1] \o <<".">> \o parts[2] \o <<".">>
                          \o IntToStr(int(parts[3]).value + 1))
     ELSE Raised("ValueError")

\* esr-release-branch.py, bump_version(prev)
bump_version(prev) ==
  LET parts == split_dot(prev)
  IN IF Len(parts) = 2
     THEN Returned(parts[1] \o <<".">> \o parts[2] \o <<".", "1">>)
     ELSE IF Len(parts) = 3
     THEN IF int(parts[3]).raised # "" THEN Raised("ValueError")
          ELSE Returned(parts[1] \o <<".">> \o parts[2] \o <<".">>
                          \o IntToStr(int(parts[3]).value + 1))
     ELSE Raised("ValueError")

\* f"{parts[0]}.{prev_minor}.0" with prev_minor = int(parts[1]) - 1
prev_minor_fmt(parts) ==
  IF int(parts[2]).raised # "" THEN Raised("ValueError")
  ELSE Returned(parts[1] \o <<".">> \o IntToStr(int(parts[2]).value - 1) \o <<".", "0">>)

\* the ESR base version keeping the minor of a three-component version
base_version_esr_keep_minor(current) ==
  LET parts == split_dot(current)
  IN IF Len(parts) = 2 /\ parts[2] = <<"0">> THEN Returned(current)
     ELSE IF Len(parts) = 2 THEN prev_minor_fmt(parts)
     ELSE IF Len(parts) = 3
     THEN IF parts[2] = <<"0">> /\ parts[3] = <<"0">>
          THEN Returned(parts[1] \o <<".", "0">>)
          ELSE Returned(parts[1] \o <<".">> \o parts[2] \o <<".", "0">>)
     ELSE Raised("ValueError")

\* esr-release-branch.py, main, the ESR branch: base_version of the current version
base_version_esr(current) ==
  LET parts == split_dot(current)
  IN IF Len(parts) = 2 /\ parts[2] = <<"0">> THEN Returned(current)
     ELSE IF Len(parts) = 2 THEN prev_minor_fmt(parts)
     ELSE IF Len(parts) = 3
     THEN IF parts[2] = <<"0">> /\ parts[3] = <<"0">>
          THEN Returned(parts[1] \o <<".", "0">>)
          ELSE prev_minor_fmt(parts)
     ELSE Raised("ValueError")

\* calculate_next_version rolling over one minor later (minor <= 3)
calculate_next_version_late_rollover(current) ==
  LET parts == split_dot(current)
  IN IF Len(parts) # 2 THEN Raised("ValueError")
     ELSE IF int(parts[1]).raised # "" \/ int(parts[2]).raised # ""
     THEN Raised("ValueError")
     ELSE LET major == int(parts[1]).value
              minor == int(parts[2]).value
          IN IF minor <= 3
             THEN Returned(IntToStr(major) \o <<".">> \o IntToStr(minor + 1))
             ELSE Returned(IntToStr(major + 1) \o <<".", "0">>)

\* ios-merge-day.py, calculate_next_version of the current version: the unpacking of
\* map(int, ...) into (major, minor) raises ValueError for any number of parts
\* other than two and for any part int() rejects
calculate_next_version(current) ==
  LET parts == split_dot(current)
  IN IF Len(parts) # 2 THEN Raised("ValueError")
     ELSE IF int(parts[1]).raised # "" \/ int(parts[2]).raised # ""
     THEN Raised("ValueError")
     ELSE LET major == int(parts[1]).value
              minor == int(parts[2]).value
          IN IF minor < 3
             THEN Returned(IntToStr(major) \o <<".">> \o IntToStr(minor + 1))
             ELSE Returned(IntToStr(major + 1) \o <<".", "0">>)

-----------------------------------------------------------------------------
(* Inputs *)

Versions == {5, 9}

Date1 == <<"2", "0", "2", "5", "-", "0", "1", "-", "0", "1">>

Date2 == <<"2", "0", "2", "5", "-", "1", "1", "-", "0", "3">>

\* One release event: the version, the previous version handed to
\* update_changelog_release, and the date stamp.
ReleaseEvents ==
  {[version |-> v, prev_version |-> v - 1, date_str |-> Date1] : v \in Versions}
    \cup {[version |-> v, prev_version |-> v - 2, date_str |-> Date2] : v \in Versions}

\* "# v<n>.0 (In progress)\n"
HeaderLine(n) ==
  <<"#", " ", "v">> \o IntToStr(n) \o <<".", "0", " ">> \o InProgressParen \o <<"\n">>

\* the same header without blanks and in lower case: "#v<n>.0(in progress)\n"
TightHeaderLine(n) ==
  <<"#", "v">> \o IntToStr(n) \o <<".", "0">>
    \o <<"(", "i", "n", " ", "p", "r", "o", "g", "r", "e", "s", "s", ")", "\n">>

\* "# v<n>.0 (_2024-12-01_)\n"
DatedLine(n) ==
  <<"#", " ", "v">> \o IntToStr(n)
    \o <<".", "0", " ", "(", "_", "2", "0", "2", "4", "-", "1", "2", "-", "0", "1",
         "_", ")", "\n">>

PlaceholderLine == Placeholder \o <<"\n">>

NotesLine == <<"-", " ", "F", "i", "x", "\n">>

\* The lines a changelog is made of, for release version v
Blocks(v) ==
  {HeaderLine(v), TightHeaderLine(v), HeaderLine(v + 1), DatedLine(v - 1),
   PlaceholderLine, NotesLine}

Documents(v) ==
  {Concat(bs) : bs \in UNION {[1..n -> Blocks(v)] : n \in 0..MaxBlocks}}

\* The pieces a version.txt is made of, for release version v
Pieces(v) ==
  {IntToStr(v), IntToStr(v + 1), <<".", "0">>, <<"a", "1">>, <<"A", "1">>,
   <<" ">>, <<"\n">>}

VersionTexts(v) ==
  {Concat(ps) : ps \in UNION {[1..n -> Pieces(v)] : n \in 0..MaxPieces}}

-----------------------------------------------------------------------------
(* The parts of the state a specification does not use *)

ArithIdle ==
  /\ trail = <<>>
  /\ calls = <<>>

FlowIdle ==
  /\ pc = "idle"
  /\ head = [version_txt |-> <<>>, changelog |-> <<>>]
  /\ pushed = <<>>
  /\ is_esr = FALSE
  /\ current_version = <<>>
  /\ base_version = <<>>
  /\ tag = <<>>
  /\ relbranch = <<>>
  /\ commit = ""
  /\ created_from = ""
  /\ new_version = <<>>
  /\ ios_next_version = <<>>
  /\ version_display_txt = <<>>
  /\ milestone_txt = <<>>
  /\ written = {}
  /\ commits = <<>>

-----------------------------------------------------------------------------
(* The changelog engine: the two changelog functions applied to CHANGELOG.md *)

Init ==
  /\ \E e \in ReleaseEvents :
       /\ version = e.version
       /\ prev_version = e.prev_version
       /\ date_str = e.date_str
  /\ changelog \in Documents(version)
  /\ version_txt = target_fmt(version)
  /\ op = "init"
  /\ prev_op = "init"
  /\ md = <<>>
  /\ original = <<>>
  /\ changed = FALSE
  /\ compare_url = <<>>
  /\ new_value = <<>>
  /\ wrote = FALSE
  /\ steps = 0
  /\ ArithIdle
  /\ raised = ""
  /\ FlowIdle

\* What a changelog function leaves behind: the file and its return values
ChangelogEffect(r) ==
  /\ changelog' = r.content
  /\ changed' = r.changed
  /\ compare_url' = r.compare_url
  /\ wrote' = r.wrote

ChangelogRelease ==
  /\ steps < MaxSteps
  /\ ChangelogEffect(update_changelog_release(changelog, version, date_str, prev_version))
  /\ md' = changelog
  /\ op' = "changelog_release"
  /\ prev_op' = op
  /\ steps' = steps + 1
  /\ UNCHANGED <<version_txt, version, date_str, prev_version, original, new_value>>
  /\ UNCHANGED <<arith_vars, raised, flow_vars>>

ChangelogStartNext ==
  /\ steps < MaxSteps
  /\ ChangelogEffect(update_changelog_main_start_next(changelog, version, date_str))
  /\ md' = changelog
  /\ op' = "changelog_start_next"
  /\ prev_op' = op
  /\ steps' = steps + 1
  /\ UNCHANGED <<version_txt, version, date_str, prev_version, original, new_value>>
  /\ UNCHANGED <<arith_vars, raised, flow_vars>>

Next == ChangelogRelease \/ ChangelogStartNext

Spec == Init /\ [][Next]_vars

-----------------------------------------------------------------------------
(* The version engine: the two version functions applied to version.txt *)

InitVersion ==
  /\ version \in Versions
  /\ prev_version = version - 1
  /\ date_str = Date1
  /\ changelog = <<>>
  /\ version_txt \in VersionTexts(version)
  /\ op = "init"
  /\ prev_op = "init"
  /\ md = <<>>
  /\ original = <<>>
  /\ changed = FALSE
  /\ compare_url = <<>>
  /\ new_value = <<>>
  /\ wrote = FALSE
  /\ steps = 0
  /\ ArithIdle
  /\ raised = ""
  /\ FlowIdle

\* What a version function leaves behind: the file and its return values
VersionEffect(r) ==
  /\ version_txt' = r.content
  /\ changed' = r.changed
  /\ new_value' = r.new_value
  /\ wrote' = r.wrote

VersionRelease ==
  /\ steps < MaxSteps
  /\ VersionEffect(update_version_txt_release(version_txt))
  /\ original' = version_txt
  /\ op' = "version_release"
  /\ prev_op' = op
  /\ steps' = steps + 1
  /\ UNCHANGED <<changelog, version, date_str, prev_version, md, compare_url>>
  /\ UNCHANGED <<arith_vars, raised, flow_vars>>

\* main: next_version = version + 1; update_version_txt_main(repo, next_version)
VersionMain ==
  /\ steps < MaxSteps
  /\ VersionEffect(update_version_txt_main(version_txt, version + 1))
  /\ original' = version_txt
  /\ op' = "version_main"
  /\ prev_op' = op
  /\ steps' = steps + 1
  /\ UNCHANGED <<changelog, version, date_str, prev_version, md, compare_url>>
  /\ UNCHANGED <<arith_vars, raised, flow_vars>>

NextVersion == VersionRelease \/ VersionMain

SpecVersion == InitVersion /\ [][NextVersion]_vars

-----------------------------------------------------------------------------
(* What the claims speak of, stated on the document the last changelog      *)
(* operation read (md) and on what it left behind (changelog)               *)

\* "# v<v>.0 (In progress)"
CanonHeader(v) ==
  <<"#", " ", "v">> \o IntToStr(v) \o <<".", "0", " ">> \o InProgressParen

\* "# v<v>.0 (_<d>_)"
DatedHeader(v, d) ==
  <<"#", " ", "v">> \o IntToStr(v) \o <<".", "0", " ", "(", "_">> \o d \o <<"_", ")">>

\* ".../compare/v<p>.0...v<v>.0"
CompareUrl(p, v) ==
  CompareUrlBase \o IntToStr(p) \o <<".", "0", ".", ".", ".", "v">> \o IntToStr(v)
    \o <<".", "0">>

\* "[Full Changelog](.../compare/v<p>.0...v<v>.0)"
ResolvedLink(p, v) == FullChangelogOpen \o CompareUrl(p, v) \o <<")">>

\* "# v<v+1>.0 (In progress)\n\n[Full Changelog](In progress)\n\n"
NewBlock(v) == CanonHeader(v + 1) \o <<"\n", "\n">> \o Placeholder \o <<"\n", "\n">>

\* the offsets of the in-progress headers for version v in doc
InProgressHeaders(doc, v) ==
  {i \in 0..(Len(doc) - 1) : header_re_match_end(doc, i, v) # -1}

\* the offsets of the placeholders of doc that lie within [a, b)
PlaceholdersIn(doc, a, b) ==
  {i \in a..(b - Len(Placeholder)) : lit_at_ignorecase(doc, i, Placeholder)}

\* the header the last changelog operation located, and its section's end
Located == header_re_search(md, 0, version)

LocatedEnd == section_end_of(md, Located.end)

\* the placeholders of the located section
SectionPlaceholders == PlaceholdersIn(md, Located.end, LocatedEnd)

Suffix(s, n) == SubSeq(s, Len(s) - n + 1, Len(s))

-----------------------------------------------------------------------------
(* Claims *)

C1_Case ==
  /\ op = "changelog_release"
  /\ Located.start # -1
  /\ SubSeq(md, Located.start + 1, Located.end) = CanonHeader(version)
  /\ SectionPlaceholders # {}

\* C1: closeSection on a document whose header "# v<V>.0 (In progress)" has a
\* placeholder in its section replaces the header by "# v<V>.0 (_<D>_)" and the
\* section's first placeholder by "[Full Changelog](.../compare/v<P>.0...v<V>.0)",
\* reports changed = true and returns that compare URL.
C1_CloseSection ==
  C1_Case =>
    LET ph == Min(SectionPlaceholders)
    IN /\ changelog = SubSeq(md, 1, Located.start)
                        \o DatedHeader(version, date_str)
                        \o SubSeq(md, Located.end + 1, ph)
                        \o ResolvedLink(prev_version, version)
                        \o SubSeq(md, ph + Len(Placeholder) + 1, Len(md))
       /\ changed = TRUE
       /\ compare_url = CompareUrl(prev_version, version)

C1_Witness ==
  /\ C1_Case
  /\ Located.start > 0
  /\ prev_version = version - 2

\* C2: closeSection leaves the text before the section start and the text from
\* the section end onward byte-identical; without a located section the whole
\* document is left as it was.
C2_Frame ==
  op = "changelog_release" =>
    IF Located.start = -1 THEN changelog = md
    ELSE /\ Len(changelog) >= Located.start + (Len(md) - LocatedEnd)
         /\ SubSeq(changelog, 1, Located.start) = SubSeq(md, 1, Located.start)
         /\ Suffix(changelog, Len(md) - LocatedEnd) = Suffix(md, Len(md) - LocatedEnd)

C2_Witness ==
  /\ op = "changelog_release"
  /\ Located.start # -1
  /\ LocatedEnd < Len(md)
  /\ PlaceholdersIn(md, LocatedEnd, Len(md)) # {}
  /\ changelog # md

\* C4: closeSection on a document without the in-progress header for V leaves
\* the document as it was, writes nothing, reports changed = false and returns
\* the compare URL .../compare/v<P>.0...v<V>.0 of the header-found path.
C4_MissingHeader ==
  (op = "changelog_release" /\ InProgressHeaders(md, version) = {}) =>
    /\ changelog = md
    /\ changed = FALSE
    /\ wrote = FALSE
    /\ compare_url = CompareUrl(prev_version, version)

C4_Witness ==
  /\ op = "changelog_release"
  /\ InProgressHeaders(md, version) = {}
  /\ PlaceholdersIn(md, 0, Len(md)) # {}
  /\ InProgressHeaders(md, version + 1) # {}
  /\ changed = FALSE

\* C3 as stated: for every document, a second closeSection with the same
\* arguments on the output of the first reports changed = false and leaves the
\* text unchanged.
C3_IdempotentEveryDocument ==
  [][(op = "changelog_release" /\ op' = "changelog_release")
       => (changed' = FALSE /\ changelog' = changelog)]_vars

\* C3, amended: for every document with at most one in-progress header for V,
\* a second closeSection with the same arguments on the output of the first
\* reports changed = false and leaves the text unchanged.
C3_IdempotentSingleHeader ==
  [][(/\ op = "changelog_release"
      /\ op' = "changelog_release"
      /\ Cardinality(InProgressHeaders(md, version)) <= 1)
       => (changed' = FALSE /\ wrote' = FALSE /\ changelog' = changelog)]_vars

C3_Witness ==
  /\ op = "changelog_release"
  /\ prev_op = "changelog_release"
  /\ steps = 2
  /\ lit_at(md, 0, DatedHeader(version, date_str))
  /\ PlaceholdersIn(md, 0, Len(md)) # {}
  /\ changed = FALSE
  /\ changelog = md

\* C5 as stated: whatever the input document, the output of startNextCycle
\* begins with the new block for V+1.
C5_NewBlockFirst ==
  op = "changelog_start_next" =>
    /\ Len(changelog) >= Len(NewBlock(version))
    /\ SubSeq(changelog, 1, Len(NewBlock(version))) = NewBlock(version)

C6_Case ==
  /\ op = "changelog_start_next"
  /\ lit_at(md, 0, CanonHeader(version))

\* C6: startNextCycle on a document whose top section is "# v<V>.0 (In progress)"
\* adds exactly one "# v<V+1>.0 (In progress)" header, the new block keeps its
\* placeholder, and behind the new block stands the document with the v<V>.0
\* header dated and the first placeholder of its section resolved to
\* v<V-1>.0...v<V>.0, as closeSection computes them on the original text.
C6_StartNextCycle ==
  C6_Case =>
    /\ Cardinality(InProgressHeaders(changelog, version + 1))
         = Cardinality(InProgressHeaders(md, version + 1)) + 1
    /\ Len(changelog) >= Len(NewBlock(version))
    /\ SubSeq(changelog, 1, Len(NewBlock(version))) = NewBlock(version)
    /\ SubSeq(changelog, Len(NewBlock(version)) + 1, Len(changelog))
         = IF SectionPlaceholders = {}
           THEN DatedHeader(version, date_str) \o SubSeq(md, Located.end + 1, Len(md))
           ELSE DatedHeader(version, date_str)
                  \o SubSeq(md, Located.end + 1, Min(SectionPlaceholders))
                  \o ResolvedLink(version - 1, version)
                  \o SubSeq(md, Min(SectionPlaceholders) + Len(Placeholder) + 1, Len(md))
    /\ changed = TRUE
    /\ compare_url = CompareUrl(version - 1, version)

C6_Witness ==
  /\ C6_Case
  /\ SectionPlaceholders # {}
  /\ LocatedEnd < Len(md)
  /\ steps = 1

\* the previous version the last changelog operation built its link from
LinkFrom == IF op = "changelog_release" THEN prev_version ELSE version - 1

C7_Case ==
  /\ op \in {"changelog_release", "changelog_start_next"}
  /\ Located.start # -1
  /\ Cardinality(SectionPlaceholders) >= 2

\* C7: when the located section holds two or more placeholders, closeSection
\* and startNextCycle resolve the first one only: the resolved link stands
\* where the first placeholder stood and everything behind it, every later
\* placeholder included, is as it was.
C7_FirstPlaceholderOnly ==
  C7_Case =>
    LET ph == Min(SectionPlaceholders)
        tail == Len(md) - (ph + Len(Placeholder))
        link == ResolvedLink(LinkFrom, version)
    IN /\ Len(changelog) >= tail + Len(link)
       /\ Suffix(changelog, tail) = Suffix(md, tail)
       /\ SubSeq(changelog, Len(changelog) - tail - Len(link) + 1, Len(changelog) - tail)
            = link
       /\ Cardinality(PlaceholdersIn(changelog, Len(changelog) - tail, Len(changelog)))
            = Cardinality(PlaceholdersIn(md, 0, Len(md))
                            \ PlaceholdersIn(md, 0, ph + Len(Placeholder)))

C7_Witness ==
  /\ C7_Case
  /\ op = "changelog_start_next"
  /\ PlaceholdersIn(changelog, Len(changelog) - Len(PlaceholderLine), Len(changelog)) # {}

C8_Case ==
  /\ op = "changelog_release"
  /\ Located.start # -1

\* C8: when the header for V is found, closeSection dates it and reports
\* changed = true also when the section holds no placeholder, and every
\* placeholder before the section start or after the section end is still
\* there afterwards.
C8_ScopedOptional ==
  C8_Case =>
    /\ changed = TRUE
    /\ lit_at(changelog, Located.start, DatedHeader(version, date_str))
    /\ SectionPlaceholders = {} =>
         changelog = SubSeq(md, 1, Located.start) \o DatedHeader(version, date_str)
                       \o SubSeq(md, Located.end + 1, Len(md))
    /\ \A i \in PlaceholdersIn(md, 0, Located.start) :
         lit_at_ignorecase(changelog, i, Placeholder)
    /\ \A i \in PlaceholdersIn(md, LocatedEnd, Len(md)) :
         lit_at_ignorecase(changelog, i + Len(changelog) - Len(md), Placeholder)

C8_Witness ==
  /\ C8_Case
  /\ SectionPlaceholders = {}
  /\ PlaceholdersIn(md, LocatedEnd, Len(md)) # {}
  /\ PlaceholdersIn(changelog, 0, Len(changelog)) # {}
  /\ changed = TRUE

-----------------------------------------------------------------------------
(* Claims about version.txt, stated on the text the last version operation  *)
(* read (original) and on what it left behind (version_txt)                 *)

\* original is "<N>.0a1" followed by whitespace only
IsDesktopA1(text) ==
  LET d == skip_digits(text, 0)
  IN /\ d > 0
     /\ lit_at(text, d, <<".", "0", "a", "1">>)
     /\ \A k \in (d + 5)..Len(text) : IsSpace(text[k])

\* the text, trailing whitespace aside, does not end with "a1"
NoTrailingA1(text) ==
  LET b == rskip_ws(text, Len(text))
  IN ~(b >= 2 /\ text[b - 1] = "a" /\ text[b] = "1")

\* C9: stripPreRelease turns "<N>.0a1" (whitespace may follow) into "<N>.0"
\* with changed = true; a text without a trailing "a1" is left as it is, with
\* changed = false and no write; on both kinds of text a second application
\* changes nothing more.
C9_StripPreRelease ==
  /\ [](op = "version_release" =>
          /\ IsDesktopA1(original) =>
               /\ new_value = SubSeq(original, 1, skip_digits(original, 0) + 2)
               /\ version_txt = new_value \o <<"\n">>
               /\ changed = TRUE
          /\ NoTrailingA1(original) =>
               /\ version_txt = original
               /\ new_value = strip(original)
               /\ changed = FALSE
               /\ wrote = FALSE)
  /\ [][(/\ op = "version_release"
         /\ op' = "version_release"
         /\ (IsDesktopA1(original) \/ NoTrailingA1(original)))
          => (/\ version_txt' = version_txt
              /\ new_value' = new_value
              /\ changed' = FALSE
              /\ wrote' = FALSE)]_vars

C9_Witness ==
  /\ op = "version_release"
  /\ version = 9
  /\ original = <<"1", "0", ".", "0", "a", "1", "\n">>
  /\ IsDesktopA1(original)
  /\ version_txt = <<"1", "0", ".", "0", "\n">>
  /\ changed = TRUE

\* "<N+1>.0a1\n"
BumpedText(n) == IntToStr(n + 1) \o <<".", "0", "a", "1", "\n">>

\* C10: for release version N the start-next-cycle phase leaves version.txt as
\* exactly "<N+1>.0a1\n" whatever it held; it reports changed = false and does
\* not write if and only if the file already held that text.
C10_DesktopBump ==
  op = "version_main" =>
    /\ version_txt = BumpedText(version)
    /\ new_value = SubSeq(BumpedText(version), 1, Len(BumpedText(version)) - 1)
    /\ (changed = FALSE) <=> (original = BumpedText(version))
    /\ (wrote = FALSE) <=> (original = BumpedText(version))

C10_Witness ==
  /\ op = "version_main"
  /\ version = 9
  /\ original = <<"1", "0", ".", "0", "a", "1">>
  /\ changed = TRUE
  /\ version_txt = <<"1", "0", ".", "0", "a", "1", "\n">>


-----------------------------------------------------------------------------
(* The version arithmetic: bump_version, the ESR base version and           *)
(* calculate_next_version applied to a version string, each call taking the *)
(* value the previous one returned                                          *)

MaxComponents == 4

MaxCalls == 4

\* The components a version string is made of
Components == {<<"0">>, <<"1">>, <<"2">>, <<"3">>, <<"9">>, <<"-", "1">>, <<"x">>}

RECURSIVE JoinDot(_)
JoinDot(ps) ==
  IF Len(ps) = 1 THEN ps[1] ELSE ps[1] \o <<".">> \o JoinDot(Tail(ps))

VersionStrings ==
  {JoinDot(ps) : ps \in UNION {[1..n -> Components] : n \in 1..MaxComponents}}

InitArith ==
  /\ trail \in {<<s>> : s \in VersionStrings}
  /\ calls = <<>>
  /\ raised = ""
  /\ version = 0
  /\ prev_version = 0
  /\ date_str = <<>>
  /\ changelog = <<>>
  /\ version_txt = <<>>
  /\ op = "init"
  /\ prev_op = "init"
  /\ md = <<>>
  /\ original = <<>>
  /\ changed = FALSE
  /\ compare_url = <<>>
  /\ new_value = <<>>
  /\ wrote = FALSE
  /\ steps = 0
  /\ FlowIdle

\* What a call leaves behind: the value it returned, or the exception
ArithEffect(name, r) ==
  /\ calls' = Append(calls, name)
  /\ raised' = r.raised
  /\ trail' = IF r.raised = "" THEN Append(trail, r.value) ELSE trail

CallBumpVersion ==
  /\ raised = ""
  /\ Len(calls) < MaxCalls
  /\ ArithEffect("bump_version", bump_version(trail[Len(trail)]))
  /\ UNCHANGED <<engine_vars, flow_vars>>

CallBaseVersion ==
  /\ raised = ""
  /\ Len(calls) < MaxCalls
  /\ ArithEffect("base_version", base_version_esr(trail[Len(trail)]))
  /\ UNCHANGED <<engine_vars, flow_vars>>

CallCalculateNextVersion ==
  /\ raised = ""
  /\ Len(calls) < MaxCalls
  /\ ArithEffect("calculate_next_version", calculate_next_version(trail[Len(trail)]))
  /\ UNCHANGED <<engine_vars, flow_vars>>

NextArith == CallBumpVersion \/ CallBaseVersion \/ CallCalculateNextVersion

SpecArith == InitArith /\ [][NextArith]_vars


-----------------------------------------------------------------------------
(* What the claims on version arithmetic speak of: call k of a run took     *)
(* trail[k] and, unless it raised, returned trail[k + 1]                    *)

MaxNumber == 13

Numbers == 0..MaxNumber

\* "A.B"
V2(a, b) == IntToStr(a) \o <<".">> \o IntToStr(b)

\* "A.B.C"
V3(a, b, c) == IntToStr(a) \o <<".">> \o IntToStr(b) \o <<".">> \o IntToStr(c)

\* the versions of two and of three non-negative components, by their text
TwoPart == {[text |-> V2(a, b), major |-> a, minor |-> b] : a \in Numbers, b \in Numbers}

ThreePart ==
  {[text |-> V3(a, b, c), major |-> a, minor |-> b, patch |-> c] :
     a \in Numbers, b \in Numbers, c \in Numbers}

CallsOf(name) == {k \in 1..Len(calls) : calls[k] = name}

Returns(k) == k < Len(trail)

\* C11: bump_version of a two-component version A.B returns A.B.1, and of a
\* three-component version A.B.C returns A.B.<C+1>, A and B as they were.
C11_DotBump ==
  \A k \in CallsOf("bump_version") :
    /\ \A v \in TwoPart :
         trail[k] = v.text => Returns(k) /\ trail[k + 1] = V3(v.major, v.minor, 1)
    /\ \A v \in ThreePart :
         trail[k] = v.text =>
           Returns(k) /\ trail[k + 1] = V3(v.major, v.minor, v.patch + 1)

C11_Witness ==
  /\ calls = <<"bump_version", "bump_version">>
  /\ trail = <<V2(3, 9), V3(3, 9, 1), V3(3, 9, 2)>>


\* C12: calculate_next_version of M.m returns M.<m+1> for m in {0,1,2} and
\* <M+1>.0 for m = 3; so repeated bumps from a minor in 0..3 keep the minor in
\* 0..3, and four successive bumps of M.m return <M+1>.m.
C12_RollingBump ==
  /\ \A k \in CallsOf("calculate_next_version") :
       \A v \in TwoPart :
         (trail[k] = v.text /\ v.minor <= 3) =>
           /\ Returns(k)
           /\ trail[k + 1] = IF v.minor < 3 THEN V2(v.major, v.minor + 1)
                             ELSE V2(v.major + 1, 0)
  /\ \A v \in TwoPart :
       (/\ trail[1] = v.text
        /\ v.minor <= 3
        /\ CallsOf("calculate_next_version") = 1..Len(calls)) =>
         /\ Len(trail) = Len(calls) + 1
         /\ \A j \in 1..Len(trail) :
              \E w \in TwoPart : trail[j] = w.text /\ w.minor <= 3
         /\ Len(calls) >= 4 => trail[5] = V2(v.major + 1, v.minor)

C12_Witness ==
  /\ calls = <<"calculate_next_version", "calculate_next_version",
               "calculate_next_version", "calculate_next_version">>
  /\ trail = <<V2(9, 2), V2(9, 3), V2(10, 0), V2(10, 1), V2(10, 2)>>

\* C13: the ESR base version of A.0 and of A.0.0 is A.0; of every other version
\* of two or three components A.B[.C] it is A.<B-1>.0.
C13_BaseVersion ==
  \A k \in CallsOf("base_version") :
    /\ \A v \in TwoPart :
         trail[k] = v.text =>
           /\ Returns(k)
           /\ trail[k + 1] = IF v.minor = 0 THEN V2(v.major, 0)
                             ELSE V3(v.major, v.minor - 1, 0)
    /\ \A v \in ThreePart :
         trail[k] = v.text =>
           /\ Returns(k)
           /\ trail[k + 1] = IF v.minor = 0 /\ v.patch = 0 THEN V2(v.major, 0)
                             ELSE V3(v.major, v.minor - 1, 0)

C13_Witness ==
  /\ calls = <<"base_version", "base_version">>
  /\ trail = <<V3(9, 2, 1), V3(9, 1, 0), V3(9, 0, 0)>>

\* C14: the ESR base version of bump_version(B) is B, for every version B of two
\* or three components.
C14_RoundTrip ==
  \A k \in CallsOf("bump_version") :
    (/\ k + 1 \in CallsOf("base_version")
     /\ \E v \in TwoPart \cup ThreePart : trail[k] = v.text) =>
      /\ Returns(k + 1)
      /\ trail[k + 2] = trail[k]

\* the number of components of a version string
ComponentCount(text) == Cardinality({i \in 1..Len(text) : text[i] = "."}) + 1

\* C15: a version string whose number of components is not what the function
\* expects (calculate_next_version: 2; bump_version and the ESR base version:
\* 2 or 3) makes the call raise; no version is returned.
C15_ComponentCount ==
  \A k \in 1..Len(calls) :
    LET n == ComponentCount(trail[k])
    IN (\/ calls[k] = "calculate_next_version" /\ n # 2
        \/ calls[k] \in {"bump_version", "base_version"} /\ n \notin {2, 3}) =>
         /\ ~Returns(k)
         /\ raised = "ValueError"

C15_Witness ==
  /\ calls = <<"bump_version", "calculate_next_version">>
  /\ trail = <<V2(3, 0), V3(3, 0, 1)>>
  /\ raised = "ValueError"

\* a component that is a non-negative integer: a run of decimal digits
IsNatural(part) == part # <<>> /\ \A i \in 1..Len(part) : IsDigit(part[i])

\* C16: a version string with the right number of components, one of which is
\* negative or no integer, makes the call raise; no version is returned.
C16_ComponentValue ==
  \A k \in 1..Len(calls) :
    LET parts == split_dot(trail[k])
    IN (/\ \/ calls[k] = "calculate_next_version" /\ Len(parts) = 2
           \/ calls[k] \in {"bump_version", "base_version"} /\ Len(parts) \in {2, 3}
        /\ \E i \in 1..Len(parts) : ~IsNatural(parts[i])) =>
         ~Returns(k)


-----------------------------------------------------------------------------
(* as-merge-day.py, main: Phase A on the release branch, then Phase B on    *)
(* the work branch off main.  pc names the last step main() has completed.  *)

MaxFlowBlocks == 1

\* CHANGELOG.md and version.txt as found on an upstream branch
FlowDocuments(v) ==
  {Concat(bs) : bs \in UNION {[1..n -> Blocks(v)] : n \in 0..MaxFlowBlocks}}

FlowVersionTexts(v) ==
  {IntToStr(v) \o <<".", "0", "a", "1", "\n">>,
   IntToStr(v) \o <<".", "0", "\n">>,
   target_fmt(v + 1)}

\* f"Cut release v{version}.0"
commit_msg_rel ==
  <<"C", "u", "t", " ", "r", "e", "l", "e", "a", "s", "e", " ", "v">>
    \o IntToStr(version) \o <<".", "0">>

\* f"Start release v{next_version}.0"
commit_msg_main ==
  <<"S", "t", "a", "r", "t", " ", "r", "e", "l", "e", "a", "s", "e", " ", "v">>
    \o IntToStr(version + 1) \o <<".", "0">>

\* git diff --cached --name-only after git add version.txt CHANGELOG.md
diff_cached ==
  {f \in {"version.txt", "CHANGELOG.md"} :
     \/ f = "version.txt" /\ version_txt # head.version_txt
     \/ f = "CHANGELOG.md" /\ changelog # head.changelog}

\* the variables of a run of main() that as-merge-day.py does not have
merge_unused ==
  <<is_esr, current_version, base_version, tag, relbranch, commit, created_from,
    new_version, ios_next_version, version_display_txt, milestone_txt, written>>

InitMain ==
  /\ version \in Versions
  /\ prev_version = version - 1
  /\ date_str \in {Date1, Date2}
  /\ changelog = <<>>
  /\ version_txt = <<>>
  /\ op = "init"
  /\ prev_op = "init"
  /\ md = <<>>
  /\ original = <<>>
  /\ changed = FALSE
  /\ compare_url = <<>>
  /\ new_value = <<>>
  /\ wrote = FALSE
  /\ steps = 0
  /\ ArithIdle
  /\ raised = ""
  /\ pc = "start"
  /\ head = [version_txt |-> <<>>, changelog |-> <<>>]
  /\ pushed = <<>>
  /\ is_esr = FALSE
  /\ current_version = <<>>
  /\ base_version = <<>>
  /\ tag = <<>>
  /\ relbranch = <<>>
  /\ commit = ""
  /\ created_from = ""
  /\ new_version = <<>>
  /\ ios_next_version = <<>>
  /\ version_display_txt = <<>>
  /\ milestone_txt = <<>>
  /\ written = {}
  /\ commits = <<>>

\* git checkout -B <branch> upstream/<branch>: the files of the upstream branch
\* are in the working tree and at HEAD
CheckedOut(vt, doc) ==
  /\ version_txt' = vt
  /\ changelog' = doc
  /\ head' = [version_txt |-> vt, changelog |-> doc]

\* checkout_release_branch(repo, version)
A_Checkout ==
  /\ pc = "start"
  /\ \E vt \in FlowVersionTexts(version), doc \in FlowDocuments(version) :
       CheckedOut(vt, doc)
  /\ pc' = "a_checked_out"
  /\ UNCHANGED <<version, date_str, prev_version, op, prev_op, md, original, changed,
                 compare_url, new_value, wrote, steps>>
  /\ UNCHANGED <<arith_vars, raised, pushed, commits, merge_unused>>

\* ver_changed_rel, _ = update_version_txt_release(repo)
A_VersionTxt ==
  /\ pc = "a_checked_out"
  /\ VersionEffect(update_version_txt_release(version_txt))
  /\ original' = version_txt
  /\ op' = "version_release"
  /\ prev_op' = op
  /\ pc' = "a_version_stripped"
  /\ UNCHANGED <<changelog, version, date_str, prev_version, md, compare_url, steps>>
  /\ UNCHANGED <<arith_vars, raised, head, pushed, commits, merge_unused>>

\* ch_changed_rel, compare_url_rel =
\*   update_changelog_release(repo, version, date_str, version - 1)
A_Changelog ==
  /\ pc = "a_version_stripped"
  /\ ChangelogEffect(update_changelog_release(changelog, version, date_str, version - 1))
  /\ md' = changelog
  /\ op' = "changelog_release"
  /\ prev_op' = op
  /\ pc' = "a_changelog_closed"
  /\ UNCHANGED <<version_txt, version, date_str, prev_version, original, new_value, steps>>
  /\ UNCHANGED <<arith_vars, raised, head, pushed, commits, merge_unused>>

\* git commit -m <msg>: HEAD takes the staged files
Committed(msg) ==
  /\ head' = [version_txt |-> version_txt, changelog |-> changelog]
  /\ commits' = Append(commits, msg)

\* the commit made whether or not anything is staged
A_CommitAlways ==
  /\ pc = "a_changelog_closed"
  /\ Committed(commit_msg_rel)
  /\ pc' = "a_committed"
  /\ UNCHANGED <<engine_vars, arith_vars, raised, pushed, merge_unused>>

\* if diff_rel.strip(): git commit -m commit_msg_rel
\* else: "Nothing staged; skipping commit."
A_CommitIfStaged ==
  /\ pc = "a_changelog_closed"
  /\ IF diff_cached # {}
     THEN /\ Committed(commit_msg_rel)
          /\ pc' = "a_committed"
     ELSE /\ pc' = "a_commit_skipped"
          /\ UNCHANGED <<head, commits>>
  /\ UNCHANGED <<engine_vars, arith_vars, raised, pushed, merge_unused>>

\* git push -u origin HEAD:release-v{version}
A_Push ==
  /\ pc \in {"a_committed", "a_commit_skipped"}
  /\ pushed' = Append(pushed, "release")
  /\ pc' = "a_pushed"
  /\ UNCHANGED <<engine_vars, arith_vars, raised, head, commits, merge_unused>>

\* the PR link of the release branch; Phase A is over
A_PrLink ==
  /\ pc = "a_pushed"
  /\ pc' = "a_done"
  /\ UNCHANGED <<engine_vars, arith_vars, raised, head, pushed, commits, merge_unused>>


\* next_version = version + 1; checkout_main_work_branch(repo, next_version)
B_Checkout ==
  /\ pc = "a_done"
  /\ \E vt \in FlowVersionTexts(version), doc \in FlowDocuments(version) :
       CheckedOut(vt, doc)
  /\ pc' = "b_checked_out"
  /\ UNCHANGED <<version, date_str, prev_version, op, prev_op, md, original, changed,
                 compare_url, new_value, wrote, steps>>
  /\ UNCHANGED <<arith_vars, raised, pushed, commits, merge_unused>>

\* ver_changed_main, _ = update_version_txt_main(repo, next_version)
B_VersionTxt ==
  /\ pc = "b_checked_out"
  /\ VersionEffect(update_version_txt_main(version_txt, version + 1))
  /\ original' = version_txt
  /\ op' = "version_main"
  /\ prev_op' = op
  /\ pc' = "b_version_bumped"
  /\ UNCHANGED <<changelog, version, date_str, prev_version, md, compare_url, steps>>
  /\ UNCHANGED <<arith_vars, raised, head, pushed, commits, merge_unused>>

\* ch_changed_main, compare_url_main =
\*   update_changelog_main_start_next(repo, version, date_str)
B_Changelog ==
  /\ pc = "b_version_bumped"
  /\ ChangelogEffect(update_changelog_main_start_next(changelog, version, date_str))
  /\ md' = changelog
  /\ op' = "changelog_start_next"
  /\ prev_op' = op
  /\ pc' = "b_changelog_opened"
  /\ UNCHANGED <<version_txt, version, date_str, prev_version, original, new_value, steps>>
  /\ UNCHANGED <<arith_vars, raised, head, pushed, commits, merge_unused>>

\* if diff_main.strip(): git commit -m commit_msg_main
\* else: "Nothing staged; skipping commit."
B_CommitIfStaged ==
  /\ pc = "b_changelog_opened"
  /\ IF diff_cached # {}
     THEN /\ Committed(commit_msg_main)
          /\ pc' = "b_committed"
     ELSE /\ pc' = "b_commit_skipped"
          /\ UNCHANGED <<head, commits>>
  /\ UNCHANGED <<engine_vars, arith_vars, raised, pushed, merge_unused>>

\* git push -u origin HEAD:start-release-v{next_version}
B_Push ==
  /\ pc \in {"b_committed", "b_commit_skipped"}
  /\ pushed' = Append(pushed, "work")
  /\ pc' = "b_pushed"
  /\ UNCHANGED <<engine_vars, arith_vars, raised, head, commits, merge_unused>>

\* the PR link of the work branch and the summary; main() returns
B_Summary ==
  /\ pc = "b_pushed"
  /\ pc' = "done"
  /\ UNCHANGED <<engine_vars, arith_vars, raised, head, pushed, commits, merge_unused>>

\* the steps of main() that run git through run(), which raises
\* CalledProcessError when the command fails: checkout, add / diff / commit, push
GitStepsFrom ==
  {"start", "a_changelog_closed", "a_committed", "a_commit_skipped",
   "a_done", "b_changelog_opened", "b_committed", "b_commit_skipped"}

\* a git command fails: the exception is not caught and ends the run
GitFails ==
  /\ pc \in GitStepsFrom
  /\ raised' = "CalledProcessError"
  /\ pc' = "failed"
  /\ UNCHANGED <<engine_vars, arith_vars, head, pushed, commits, merge_unused>>

\* the steps of a run in which every git command succeeds
NextMainRun ==
  \/ A_Checkout \/ A_VersionTxt \/ A_Changelog \/ A_CommitIfStaged
  \/ A_Push \/ A_PrLink
  \/ B_Checkout \/ B_VersionTxt \/ B_Changelog \/ B_CommitIfStaged
  \/ B_Push \/ B_Summary

NextMain == NextMainRun \/ GitFails

SpecMain == InitMain /\ [][NextMain]_vars

\* the positions of a run in which every git command succeeds
Positions ==
  {"start", "a_checked_out", "a_version_stripped", "a_changelog_closed",
   "a_committed", "a_commit_skipped", "a_pushed", "a_done", "b_checked_out",
   "b_version_bumped", "b_changelog_opened", "b_committed", "b_commit_skipped",
   "b_pushed", "done"}

\* main() moves on to another position; every step of NextMainRun does, and one
\* is enabled at every position but "done"
Advance == pc # "done" /\ pc' \in Positions /\ pc' # pc

\* main() is a sequential program: it takes its next step as long as it has one
SpecMainLive == InitMain /\ [][NextMainRun]_vars /\ WF_pc(Advance)


-----------------------------------------------------------------------------
(* What the claims on the merge-day workflow speak of *)

\* the state of the cut-release workflow that position p of main() stands for
CutReleaseState(p) ==
  CASE p \in {"start", "a_checked_out"} -> "Start"
    [] p = "a_version_stripped" -> "VersionStripped"
    [] p \in {"a_changelog_closed", "a_commit_skipped"} -> "ChangelogClosed"
    [] p = "a_committed" -> "Committed"
    [] p = "a_pushed" -> "Pushed"
    [] p = "failed" -> "Failed"
    [] OTHER -> "Done"

CutReleaseChain ==
  {<<"Start", "VersionStripped">>, <<"VersionStripped", "ChangelogClosed">>,
   <<"ChangelogClosed", "Committed">>, <<"Committed", "Pushed">>, <<"Pushed", "Done">>}

\* the positions of the start-next-cycle phase
PhaseB ==
  {"b_checked_out", "b_version_bumped", "b_changelog_opened", "b_committed",
   "b_commit_skipped", "b_pushed", "done"}

\* the two edits of the phase left version.txt and CHANGELOG.md as they were read
NothingEdited == version_txt = original /\ changelog = md

\* C17 (as claimed): a run that does not fail passes through Start,
\* VersionStripped, ChangelogClosed, Committed, Pushed, Done in that order, none
\* skipped, and the start-next-cycle phase begins only after the cut-release push.
C17_LinearCutRelease ==
  /\ [][CutReleaseState(pc') # CutReleaseState(pc) =>
          \/ CutReleaseState(pc') = "Failed"
          \/ <<CutReleaseState(pc), CutReleaseState(pc')>> \in CutReleaseChain]_vars
  /\ [](pc \in PhaseB => pushed # <<>> /\ pushed[1] = "release")

\* C17 (amended): the same order, where Committed is passed exactly when one of
\* the two edits changed version.txt or CHANGELOG.md; when neither did, the
\* commit is skipped and the run goes from ChangelogClosed to Pushed.
C17_CutReleaseOrder ==
  /\ [][CutReleaseState(pc') # CutReleaseState(pc) =>
          \/ CutReleaseState(pc') = "Failed"
          \/ /\ <<CutReleaseState(pc), CutReleaseState(pc')>> \in CutReleaseChain
             /\ CutReleaseState(pc') = "Committed" =>
                  ~NothingEdited /\ commits' = <<commit_msg_rel>>
          \/ /\ CutReleaseState(pc) = "ChangelogClosed"
             /\ CutReleaseState(pc') = "Pushed"
             /\ NothingEdited
             /\ commits = <<>>]_vars
  /\ [](pc \in PhaseB => pushed # <<>> /\ pushed[1] = "release")

C17_Witness ==
  /\ pc = "b_checked_out"
  /\ commits = <<>>
  /\ pushed = <<"release">>

\* the document the last changelog edit read had no in-progress header for V
HeaderAbsent == InProgressHeaders(md, version) = {}

\* C20: a missing in-progress header aborts neither phase.  Phase A goes on to
\* its push and ends; Phase B prepends the "# v<V+1>.0 (In progress)" section,
\* reports changed = true, commits, pushes and ends.
C20_MissingHeaderGoesOn ==
  /\ [](pc = "b_changelog_opened" /\ HeaderAbsent =>
          changed = TRUE /\ changelog = NewBlock(version) \o md)
  /\ [](pc = "done" /\ HeaderAbsent =>
          commits[Len(commits)] = commit_msg_main /\ pushed = <<"release", "work">>)
  /\ (pc = "a_changelog_closed" /\ HeaderAbsent) ~> (pc = "a_done" /\ pushed = <<"release">>)
  /\ (pc = "b_changelog_opened" /\ HeaderAbsent) ~> (pc = "done")

C20_Witness ==
  /\ pc = "done"
  /\ HeaderAbsent
  /\ commits = <<commit_msg_main>>
  /\ pushed = <<"release", "work">>


-----------------------------------------------------------------------------
(* esr-release-branch.py: names, version files and main *)

\* base_version.replace('.', '_')
replace_dots(s) == [k \in 1..Len(s) |-> IF s[k] = "." THEN "_" ELSE s[k]]

\* f"FIREFOX_{base_version.replace('.', '_')}esr_RELEASE"
tag_esr_fmt(base) ==
  <<"F", "I", "R", "E", "F", "O", "X", "_">>
    \o replace_dots(base)
    \o <<"e", "s", "r", "_", "R", "E", "L", "E", "A", "S", "E">>

\* f"FIREFOX_ESR_{base_version.split('.')[0]}_{base_version.split('.')[1]}_X_RELBRANCH"
relbranch_esr_fmt(base) ==
  <<"F", "I", "R", "E", "F", "O", "X", "_", "E", "S", "R", "_">>
    \o split_dot(base)[1]
    \o <<"_">>
    \o split_dot(base)[2]
    \o <<"_", "X", "_", "R", "E", "L", "B", "R", "A", "N", "C", "H">>

\* get_previous_major_version(current_version)
get_previous_major_version(current) ==
  IF int(split_dot(current)[1]).raised # "" THEN [raised |-> "ValueError", value |-> 0]
  ELSE [raised |-> "", value |-> int(split_dot(current)[1]).value - 1]

\* f"FIREFOX_RELEASE_{prev_major}_END"
tag_release_fmt(prev_major) ==
  <<"F", "I", "R", "E", "F", "O", "X", "_", "R", "E", "L", "E", "A", "S",
    "E", "_">> \o IntToStr(prev_major) \o <<"_", "E", "N", "D">>

\* f"FIREFOX_{prev_major}_0_X_RELBRANCH"
relbranch_release_fmt(prev_major) ==
  <<"F", "I", "R", "E", "F", "O", "X", "_">>
    \o IntToStr(prev_major)
    \o <<"_", "0", "_", "X", "_", "R", "E", "L", "B", "R", "A", "N", "C", "H">>

\* f'No bug - Bump version to {new_version} a=me'
commit_msg_bump ==
  <<"N", "o", " ", "b", "u", "g", " ", "-", " ", "B", "u", "m", "p", " ",
    "v", "e", "r", "s", "i", "o", "n", " ", "t", "o", " ">>
    \o new_version
    \o <<" ", "a", "=", "m", "e">>

\* str.splitlines() of a text whose only line break is "\n"
RECURSIVE splitlines(_)
splitlines(s) ==
  LET nls == {k \in 1..Len(s) : s[k] = "\n"}
  IN IF s = <<>> THEN <<>>
     ELSE IF nls = {} THEN <<s>>
     ELSE <<SubSeq(s, 1, Min(nls) - 1)>> \o splitlines(SubSeq(s, Min(nls) + 1, Len(s)))

\* re.match(r"^\d+\.\d+(\.\d+)?$", line) on a line without line break
milestone_line_match(line) ==
  LET d1 == skip_digits(line, 0)
      d2 == skip_digits(line, d1 + 1)
      d3 == skip_digits(line, d2 + 1)
  IN /\ d1 > 0
     /\ lit_at(line, d1, <<".">>)
     /\ d2 > d1 + 1
     /\ \/ d2 = Len(line)
        \/ lit_at(line, d2, <<".">>) /\ d3 > d2 + 1 /\ d3 = Len(line)

\* "\n".join(lines) + "\n"
RECURSIVE join_lines(_)
join_lines(lines) ==
  IF lines = <<>> THEN <<"\n">>
  ELSE IF Len(lines) = 1 THEN lines[1] \o <<"\n">>
  ELSE lines[1] \o <<"\n">> \o join_lines(Tail(lines))

\* update_version_files: config/milestone.txt with its first version line
\* replaced by new_version
milestone_update(text, version_str) ==
  LET lines == splitlines(text)
      hits == {k \in 1..Len(lines) : milestone_line_match(lines[k])}
  IN join_lines([k \in 1..Len(lines) |->
                   IF hits # {} /\ k = Min(hits) THEN version_str ELSE lines[k]])

\* display_version = f"{new_version}esr" if esr else new_version
display_version_fmt(version_str, esr) ==
  IF esr THEN version_str \o <<"e", "s", "r">> ELSE version_str


MaxPicks == 1

\* The components of the version strings the scripts find in version.txt
FlowComponents == {<<"0">>, <<"1">>, <<"3">>, <<"x">>}

FlowVersionStrings ==
  {JoinDot(ps) : ps \in UNION {[1..n -> FlowComponents] : n \in 1..MaxComponents}}

\* version.txt on the live branch
LiveVersionTexts == {v \o <<"\n">> : v \in FlowVersionStrings}

\* browser/config/version.txt at the commit of the release tag
TagVersionTexts ==
  {<<"3", ".", "0", "\n">>, <<"3", ".", "0", ".", "1", "\n">>,
   <<"3", ".", "0", ".", "x", "\n">>, <<"3", "\n">>}

\* config/milestone.txt at the commit of the release tag
MilestoneTexts ==
  {<<"#", " ", "m", "\n", "3", ".", "0", "\n">>, <<"3", ".", "0", ".", "1", "\n">>,
   <<"#", " ", "m", "\n">>}

\* the engine state but version.txt
engine_rest ==
  <<changelog, version, date_str, prev_version, op, prev_op, md, original, changed,
    compare_url, new_value, wrote, steps>>

\* the state the two scripts do not have
script_unused == <<engine_rest, arith_vars>>

InitScripts ==
  /\ pc \in {"esr_start", "ios_start"}
  /\ is_esr \in IF pc = "esr_start" THEN BOOLEAN ELSE {FALSE}
  /\ version = 0
  /\ prev_version = 0
  /\ date_str = <<>>
  /\ changelog = <<>>
  /\ version_txt = <<>>
  /\ op = "init"
  /\ prev_op = "init"
  /\ md = <<>>
  /\ original = <<>>
  /\ changed = FALSE
  /\ compare_url = <<>>
  /\ new_value = <<>>
  /\ wrote = FALSE
  /\ steps = 0
  /\ ArithIdle
  /\ raised = ""
  /\ head = [version_txt |-> <<>>, changelog |-> <<>>]
  /\ pushed = <<>>
  /\ current_version = <<>>
  /\ base_version = <<>>
  /\ tag = <<>>
  /\ relbranch = <<>>
  /\ commit = ""
  /\ created_from = ""
  /\ new_version = <<>>
  /\ ios_next_version = <<>>
  /\ version_display_txt = <<>>
  /\ milestone_txt = <<>>
  /\ written = {}
  /\ commits = <<>>

\* git checkout {git_branch} (or fetch and checkout), git pull: the working tree
\* holds the live branch
E_Checkout ==
  /\ pc = "esr_start"
  /\ version_txt' \in LiveVersionTexts
  /\ pc' = "esr_checked_out"
  /\ UNCHANGED <<raised, pushed, is_esr, current_version, base_version, tag, relbranch,
                 commit, created_from, new_version, ios_next_version,
                 version_display_txt, milestone_txt, written, commits, head, script_unused>>

\* current_version = get_current_version()
E_ReadVersion ==
  /\ pc = "esr_checked_out"
  /\ current_version' = strip(version_txt)
  /\ pc' = "esr_version_read"
  /\ UNCHANGED <<raised, pushed, is_esr, version_txt, base_version, tag, relbranch,
                 commit, created_from, new_version, ios_next_version,
                 version_display_txt, milestone_txt, written, commits, head, script_unused>>

\* the exception is recorded and the dot-release run goes on to its file writes
Fails_and_goes_on(exc) ==
  /\ raised' = exc
  /\ pc' = "esr_version_bumped"

\* an exception nobody catches ends the run
Fails(exc) ==
  /\ raised' = exc
  /\ pc' = "failed"

\* if is_esr: base_version, tag and relbranch from current_version
EsrBase(r) ==
  IF r.raised # ""
  THEN Fails(r.raised) /\ UNCHANGED <<base_version, tag, relbranch>>
  ELSE /\ base_version' = r.value
       /\ tag' = tag_esr_fmt(r.value)
       /\ relbranch' = relbranch_esr_fmt(r.value)
       /\ pc' = "esr_base_derived"
       /\ UNCHANGED raised

\* else: prev_major, tag, base_version = git show {tag}:browser/config/version.txt,
\* relbranch
ReleaseBase(r) ==
  IF r.raised # ""
  THEN Fails(r.raised) /\ UNCHANGED <<base_version, tag, relbranch>>
  ELSE /\ base_version' \in {strip(t) : t \in TagVersionTexts}
       /\ tag' = tag_release_fmt(r.value)
       /\ relbranch' = relbranch_release_fmt(r.value)
       /\ pc' = "esr_base_derived"
       /\ UNCHANGED raised

E_BaseVersion ==
  /\ pc = "esr_version_read"
  /\ IF is_esr THEN EsrBase(base_version_esr(current_version))
     ELSE ReleaseBase(get_previous_major_version(current_version))
  /\ UNCHANGED <<pushed, is_esr, current_version, version_txt, commit, created_from,
                 new_version, ios_next_version, version_display_txt, milestone_txt,
                 written, commits, head, script_unused>>

\* git fetch origin tag {tag}; commit = git rev-list -n 1 {tag}; git log -1
E_ResolveTag ==
  /\ pc = "esr_base_derived"
  /\ commit' = "commit of tag"
  /\ pc' = "esr_tag_resolved"
  /\ UNCHANGED <<raised, pushed, is_esr, current_version, version_txt, base_version, tag,
                 relbranch, created_from, new_version, ios_next_version,
                 version_display_txt, milestone_txt, written, commits, head, script_unused>>

\* git checkout -b {relbranch} {commit}: the working tree holds the files of the
\* tagged commit; on the release path version.txt is the text git show printed
E_CreateBranch ==
  /\ pc = "esr_tag_resolved"
  /\ created_from' = commit
  /\ version_txt' \in IF is_esr THEN TagVersionTexts ELSE {base_version \o <<"\n">>}
  /\ version_display_txt' =
       display_version_fmt(strip(version_txt'), is_esr) \o <<"\n">>
  /\ milestone_txt' \in MilestoneTexts
  /\ head' = [version_txt |-> version_txt',
              version_display_txt |-> version_display_txt',
              milestone_txt |-> milestone_txt']
  /\ pc' = "esr_branched"
  /\ UNCHANGED <<raised, pushed, is_esr, current_version, base_version, tag, relbranch,
                 commit, new_version, ios_next_version, written, commits, script_unused>>

\* new_version = bump_version(base_version)
Bumped(r) ==
  IF r.raised # ""
  THEN Fails(r.raised) /\ UNCHANGED new_version
  ELSE /\ new_version' = r.value
       /\ pc' = "esr_version_bumped"
       /\ UNCHANGED raised

\* the bump computed from the live branch's version
E_BumpVersion_from_current ==
  /\ pc = "esr_branched"
  /\ Bumped(bump_version(current_version))
  /\ UNCHANGED <<pushed, is_esr, current_version, version_txt, base_version, tag,
                 relbranch, commit, created_from, ios_next_version,
                 version_display_txt, milestone_txt, written, commits, head,
                 script_unused>>

E_BumpVersion ==
  /\ pc = "esr_branched"
  /\ Bumped(bump_version(base_version))
  /\ UNCHANGED <<pushed, is_esr, current_version, version_txt, base_version, tag,
                 relbranch, commit, created_from, ios_next_version,
                 version_display_txt, milestone_txt, written, commits, head,
                 script_unused>>

\* update_version_files(new_version, esr=is_esr)
E_UpdateVersionFiles ==
  /\ pc = "esr_version_bumped"
  /\ version_txt' = new_version \o <<"\n">>
  /\ version_display_txt' = display_version_fmt(new_version, is_esr) \o <<"\n">>
  /\ milestone_txt' = milestone_update(milestone_txt, new_version)
  /\ written' = {"version.txt", "version_display.txt", "milestone.txt"}
  /\ pc' = "esr_files_written"
  /\ UNCHANGED <<raised, pushed, is_esr, current_version, base_version, tag, relbranch,
                 commit, created_from, new_version, ios_next_version, commits, head,
                 script_unused>>

\* the three version files of the working tree
Tree ==
  [version_txt |-> version_txt,
   version_display_txt |-> version_display_txt,
   milestone_txt |-> milestone_txt]

\* git commit -a -m "No bug - Bump version to {new_version} a=me": git refuses a
\* commit that changes nothing and run raises
E_Commit ==
  /\ pc = "esr_files_written"
  /\ IF Tree # head
     THEN /\ commits' = Append(commits, commit_msg_bump)
          /\ head' = Tree
          /\ pc' = "esr_committed"
          /\ UNCHANGED raised
     ELSE Fails("Exception") /\ UNCHANGED <<commits, head>>
  /\ UNCHANGED <<pushed, is_esr, current_version, version_txt, base_version, tag,
                 relbranch, commit, created_from, new_version, ios_next_version,
                 version_display_txt, milestone_txt, written, script_unused>>

\* the cherry-pick loop: a commit the user names is picked on top of the bump
E_CherryPick ==
  /\ pc = "esr_committed"
  /\ Len(commits) < 1 + MaxPicks
  /\ commits' = Append(commits, <<"p", "i", "c", "k">>)
  /\ UNCHANGED <<pc, raised, pushed, is_esr, current_version, version_txt, base_version,
                 tag, relbranch, commit, created_from, new_version, ios_next_version,
                 version_display_txt, milestone_txt, written, head, script_unused>>

\* the script pushing the branch itself at its end
E_Finish_and_push ==
  /\ pc = "esr_committed"
  /\ pc' = "done"
  /\ pushed' = Append(pushed, relbranch)
  /\ UNCHANGED <<raised, is_esr, current_version, version_txt, base_version, tag,
                 relbranch, commit, created_from, new_version, ios_next_version,
                 version_display_txt, milestone_txt, written, commits, head,
                 script_unused>>

\* the user answers no: the lando push command is printed, nothing is pushed
E_Finish ==
  /\ pc = "esr_committed"
  /\ pc' = "done"
  /\ UNCHANGED <<raised, pushed, is_esr, current_version, version_txt, base_version, tag,
                 relbranch, commit, created_from, new_version, ios_next_version,
                 version_display_txt, milestone_txt, written, commits, head,
                 script_unused>>

\* the branch is not on origin, or git checkout -b fails: main prints and returns
E_Exit ==
  /\ pc \in {"esr_start", "esr_tag_resolved"}
  /\ pc' = "esr_exit"
  /\ UNCHANGED <<raised, pushed, is_esr, current_version, version_txt, base_version, tag,
                 relbranch, commit, created_from, new_version, ios_next_version,
                 version_display_txt, milestone_txt, written, commits, head,
                 script_unused>>

\* run raises Exception on a git command outside a try: git pull, git show,
\* git fetch, git rev-list, git log, git commit
E_GitFails ==
  /\ \/ pc \in {"esr_start", "esr_base_derived", "esr_files_written"}
     \/ pc = "esr_version_read" /\ ~is_esr
  /\ Fails("Exception")
  /\ UNCHANGED <<pushed, is_esr, current_version, version_txt, base_version, tag,
                 relbranch, commit, created_from, new_version, ios_next_version,
                 version_display_txt, milestone_txt, written, commits, head,
                 script_unused>>

NextEsr ==
  \/ E_Checkout
  \/ E_ReadVersion
  \/ E_BaseVersion
  \/ E_ResolveTag
  \/ E_CreateBranch
  \/ E_BumpVersion
  \/ E_UpdateVersionFiles
  \/ E_Commit
  \/ E_CherryPick
  \/ E_Finish
  \/ E_Exit
  \/ E_GitFails

\* f.readline(): the text up to and with the first line break
readline(s) ==
  LET nls == {k \in 1..Len(s) : s[k] = "\n"}
  IN IF nls = {} THEN s ELSE SubSeq(s, 1, Min(nls))

\* version.txt on main
IosVersionTexts == LiveVersionTexts \cup {<<"3", ".", "1", "\n", "x", "\n">>}

\* f"{RELEASE_BRANCH_PREFIX}v{current_version}"
branch_name_fmt(current) ==
  <<"r", "e", "l", "e", "a", "s", "e", "/", "v">> \o current

\* f"Bump version to {next_version}"
commit_msg_ios ==
  <<"B", "u", "m", "p", " ", "v", "e", "r", "s", "i", "o", "n", " ", "t", "o", " ">>
    \o ios_next_version

\* ensure_clean_working_tree()
I_EnsureClean ==
  /\ pc = "ios_start"
  /\ pc' = "ios_clean"
  /\ UNCHANGED <<raised, pushed, is_esr, current_version, version_txt, base_version, tag,
                 relbranch, commit, created_from, new_version, ios_next_version,
                 version_display_txt, milestone_txt, written, commits, head,
                 script_unused>>

\* checkout_and_update_main()
I_CheckoutMain ==
  /\ pc = "ios_clean"
  /\ version_txt' \in IosVersionTexts
  /\ head' = [main |-> version_txt', release |-> <<>>]
  /\ pc' = "ios_on_main"
  /\ UNCHANGED <<raised, pushed, is_esr, current_version, base_version, tag, relbranch,
                 commit, created_from, new_version, ios_next_version,
                 version_display_txt, milestone_txt, written, commits, script_unused>>

\* current_version = read_current_version()
I_ReadVersion ==
  /\ pc = "ios_on_main"
  /\ current_version' = strip(readline(version_txt))
  /\ pc' = "ios_version_read"
  /\ UNCHANGED <<raised, pushed, is_esr, version_txt, base_version, tag, relbranch,
                 commit, created_from, new_version, ios_next_version,
                 version_display_txt, milestone_txt, written, commits, head,
                 script_unused>>

\* next_version = calculate_next_version(current_version)
Calculated(r) ==
  IF r.raised # ""
  THEN Fails(r.raised) /\ UNCHANGED ios_next_version
  ELSE /\ ios_next_version' = r.value
       /\ pc' = "ios_next_calculated"
       /\ UNCHANGED raised

I_CalculateNext ==
  /\ pc = "ios_version_read"
  /\ Calculated(calculate_next_version(current_version))
  /\ UNCHANGED <<pushed, is_esr, current_version, version_txt, base_version, tag,
                 relbranch, commit, created_from, new_version, version_display_txt,
                 milestone_txt, written, commits, head, script_unused>>

\* release_branch = create_release_branch(current_version): the new branch
\* starts at the commit of main
I_CreateReleaseBranch ==
  /\ pc = "ios_next_calculated"
  /\ relbranch' = branch_name_fmt(current_version)
  /\ head' = [head EXCEPT !.release = head.main]
  /\ pc' = "ios_branched"
  /\ UNCHANGED <<raised, pushed, is_esr, current_version, version_txt, base_version, tag,
                 commit, created_from, new_version, ios_next_version,
                 version_display_txt, milestone_txt, written, commits, script_unused>>

\* bump_version(next_version): checkout main, write version.txt, git add,
\* git commit; a git command that fails exits the script
I_BumpVersion ==
  /\ pc = "ios_branched"
  /\ \E outcome \in {"committed", "checkout fails", "commit fails"} :
       IF outcome = "checkout fails"
       THEN Fails("SystemExit") /\ UNCHANGED <<version_txt, written, commits, head>>
       ELSE /\ version_txt' = ios_next_version \o <<"\n">>
            /\ written' = {"version.txt"}
            /\ IF outcome = "committed"
               THEN /\ version_txt' # head.main
                    /\ commits' = Append(commits, commit_msg_ios)
                    /\ head' = [head EXCEPT !.main = version_txt']
                    /\ pc' = "ios_bumped"
                    /\ UNCHANGED raised
               ELSE Fails("SystemExit") /\ UNCHANGED <<commits, head>>
  /\ UNCHANGED <<pushed, is_esr, current_version, base_version, tag, relbranch, commit,
                 created_from, new_version, ios_next_version, version_display_txt,
                 milestone_txt, script_unused>>

\* prompt_and_push(release_branch): choice = input().strip().lower()
I_Prompt ==
  /\ pc = "ios_bumped"
  /\ \E choice \in {"y", "n"} :
       pc' = IF choice = "y" THEN "ios_answered_y" ELSE "ios_answered_n"
  /\ UNCHANGED <<raised, pushed, is_esr, current_version, version_txt, base_version, tag,
                 relbranch, commit, created_from, new_version, ios_next_version,
                 version_display_txt, milestone_txt, written, commits, head,
                 script_unused>>

\* the release branch pushed without asking
I_Push_unasked ==
  /\ pc \in {"ios_answered_y", "ios_answered_n"}
  /\ pushed' = <<relbranch, <<"m", "a", "i", "n">>>>
  /\ pc' = "done"
  /\ UNCHANGED <<raised, is_esr, current_version, version_txt, base_version, tag,
                 relbranch, commit, created_from, new_version, ios_next_version,
                 version_display_txt, milestone_txt, written, commits, head,
                 script_unused>>

\* if choice == "y": git push --set-upstream origin {branch_name}, then
\* git push origin main; a push that fails exits the script
I_Push ==
  /\ pc = "ios_answered_y"
  /\ \E outcome \in {"pushed", "first push fails", "second push fails"} :
       /\ pushed' = CASE outcome = "pushed" -> <<relbranch, <<"m", "a", "i", "n">>>>
                      [] outcome = "second push fails" -> <<relbranch>>
                      [] OTHER -> pushed
       /\ IF outcome = "pushed"
          THEN pc' = "done" /\ UNCHANGED raised
          ELSE Fails("SystemExit")
  /\ UNCHANGED <<is_esr, current_version, version_txt, base_version, tag, relbranch,
                 commit, created_from, new_version, ios_next_version,
                 version_display_txt, milestone_txt, written, commits, head,
                 script_unused>>

\* else: the push is skipped and the two commands are printed
I_PushSkipped ==
  /\ pc = "ios_answered_n"
  /\ pc' = "done"
  /\ UNCHANGED <<raised, pushed, is_esr, current_version, version_txt, base_version, tag,
                 relbranch, commit, created_from, new_version, ios_next_version,
                 version_display_txt, milestone_txt, written, commits, head,
                 script_unused>>

\* exit(1): the working tree is dirty, or git status, git checkout main,
\* git pull or git checkout -b fails
I_Exits ==
  /\ pc \in {"ios_start", "ios_clean", "ios_next_calculated"}
  /\ Fails("SystemExit")
  /\ UNCHANGED <<pushed, is_esr, current_version, version_txt, base_version, tag,
                 relbranch, commit, created_from, new_version, ios_next_version,
                 version_display_txt, milestone_txt, written, commits, head,
                 script_unused>>

NextIos ==
  \/ I_EnsureClean
  \/ I_CheckoutMain
  \/ I_ReadVersion
  \/ I_CalculateNext
  \/ I_CreateReleaseBranch
  \/ I_BumpVersion
  \/ I_Prompt
  \/ I_Push
  \/ I_PushSkipped
  \/ I_Exits

NextScripts == NextEsr \/ NextIos

SpecScripts == InitScripts /\ [][NextScripts]_vars

-----------------------------------------------------------------------------
(* The dot-release and iOS workflows: order and aborts *)

\* the positions of esr-release-branch main
EsrPositions ==
  {"esr_start", "esr_checked_out", "esr_version_read", "esr_base_derived",
   "esr_tag_resolved", "esr_branched", "esr_version_bumped", "esr_files_written",
   "esr_committed", "esr_exit"}

\* the run is one of esr-release-branch main
EsrRun == ios_next_version = <<>> /\ ~(\E k \in DOMAIN head : k = "main")

VersionFiles == {"version.txt", "version_display.txt", "milestone.txt"}

\* what each stage of the dot-release run has when it is reached
EsrStages ==
  /\ commit # "" => base_version # <<>> /\ tag # <<>> /\ relbranch # <<>>
  /\ created_from # "" => created_from = commit
  /\ new_version # <<>> =>
       /\ created_from # ""
       /\ bump_version(base_version) = Returned(new_version)
  /\ written # {} =>
       /\ written = VersionFiles
       /\ new_version # <<>>
       /\ version_txt = new_version \o <<"\n">>
  /\ commits # <<>> =>
       /\ written = VersionFiles
       /\ commits[1] = commit_msg_bump
       /\ head.version_txt = new_version \o <<"\n">>

\* the state each stage of the dot-release run starts from
EsrSteps ==
  /\ base_version' # base_version => pc = "esr_version_read" /\ commit = ""
  /\ commit' # commit => pc = "esr_base_derived" /\ base_version # <<>>
  /\ created_from' # created_from => pc = "esr_tag_resolved" /\ new_version = <<>>
  /\ new_version' # new_version => pc = "esr_branched" /\ written = {}
  /\ written' # written => pc = "esr_version_bumped" /\ commits = <<>>
  /\ commits' # commits => pc \in {"esr_files_written", "esr_committed"}

\* C18: in every run of esr-release-branch main the base version is derived
\* before the tag is resolved to a commit, the release branch is created from
\* that commit before the version is bumped, the new version is
\* bump_version(base_version), the version files are written only after the bump
\* and hold the new version, and the commit follows the file writes.
C18_DotReleaseOrder ==
  /\ [](EsrRun => EsrStages)
  /\ [][(pc \in EsrPositions) => EsrSteps]_vars

C18_Witness ==
  /\ pc = "done"
  /\ EsrRun
  /\ is_esr
  /\ base_version # current_version
  /\ bump_version(base_version) = Returned(new_version)
  /\ bump_version(current_version) # Returned(new_version)
  /\ created_from = commit
  /\ written = VersionFiles
  /\ commits = <<commit_msg_bump>>

\* no version file differs from the commit the run checked out
NoFileWritten ==
  /\ written = {}
  /\ created_from # "" => Tree = head
  /\ (\E k \in DOMAIN head : k = "main") => version_txt = head.main

\* C19: when the base derivation, bump_version or calculate_next_version raises
\* ValueError the workflow stops: no version file has been written, no commit
\* has been made, nothing has been pushed, and no step follows.
C19_FormatErrorAborts ==
  /\ [](raised = "ValueError" =>
          pc = "failed" /\ NoFileWritten /\ commits = <<>> /\ pushed = <<>>)
  /\ [][raised # "ValueError"]_vars

C19_Witness ==
  /\ raised = "ValueError"
  /\ pc = "failed"
  /\ created_from # ""
  /\ bump_version(base_version) = Raised("ValueError")
  /\ written = {}
  /\ commits = <<>>

-----------------------------------------------------------------------------
(* Successive merge days: the changelog functions called with the version    *)
(* and the date of each run, on the CHANGELOG.md the run before left behind  *)

MaxCycles == 2

MaxSections == 3

\* the release versions of the runs
CycleVersions == {Min(Versions), Min(Versions) + 1}

\* "# v<n>.0 (In progress)\n\n[Full Changelog](In progress)\n\n"
OpenBlock(n) == new_top_fmt(n - 1)

\* "# v<n>.0 (_2024-12-01_)\n\n[Full Changelog](.../compare/v<n-1>.0...v<n>.0)\n\n"
ClosedBlock(n) ==
  DatedLine(n) \o <<"\n">> \o new_fc_fmt(compare_url_fmt(n - 1, n)) \o <<"\n", "\n">>

\* lines that begin with "#" and are no version header
TitleLine == <<"#", " ", "N", "o", "t", "e", "s", "\n">>

SubHeaderLine(n) ==
  <<"#", "#", " ", "v">> \o IntToStr(n) \o <<".", "0", " ", "(", "x", ")", "\n">>

\* the body of a section: two lines that begin with "#" and a placeholder
BodyBlock(n) == TitleLine \o SubHeaderLine(n) \o PlaceholderLine

\* what a CHANGELOG.md is made of before the first run, for first version v
CycleBlocks(v) ==
  {OpenBlock(v), OpenBlock(v + 1), ClosedBlock(v - 1), HeaderLine(v), BodyBlock(v - 1)}

CycleDocuments ==
  {Concat(bs) :
     bs \in UNION {[1..n -> CycleBlocks(Min(Versions))] : n \in 0..MaxSections}}

InitCycles ==
  /\ changelog \in CycleDocuments
  /\ trail = <<changelog>>
  /\ calls = <<>>
  /\ version = 0
  /\ prev_version = 0
  /\ date_str = <<>>
  /\ version_txt = <<>>
  /\ op = "init"
  /\ prev_op = "init"
  /\ md = <<>>
  /\ original = <<>>
  /\ changed = FALSE
  /\ compare_url = <<>>
  /\ new_value = <<>>
  /\ wrote = FALSE
  /\ steps = 0
  /\ raised = ""
  /\ FlowIdle

\* the arguments of a call and the document it leaves, kept for the next run
CycleCall(name, v, d) ==
  /\ version' = v
  /\ prev_version' = v - 1
  /\ date_str' = d
  /\ md' = changelog
  /\ op' = name
  /\ prev_op' = op
  /\ steps' = steps + 1
  /\ calls' = Append(calls, [name |-> name, version |-> v, date_str |-> d])
  /\ trail' = Append(trail, changelog')
  /\ UNCHANGED <<version_txt, original, new_value, raised, flow_vars>>

\* date_str = datetime.now().strftime("%Y-%m-%d"): no run is dated before the
\* run it follows
CycleDates == IF date_str = Date2 THEN {Date2} ELSE {Date1, Date2}

\* main: update_changelog_release(repo, version, date_str, version - 1)
CycleRelease ==
  /\ steps < MaxCycles
  /\ \E v \in CycleVersions, d \in CycleDates :
       /\ ChangelogEffect(update_changelog_release(changelog, v, d, v - 1))
       /\ CycleCall("changelog_release", v, d)

\* main: update_changelog_main_start_next(repo, version, date_str)
CycleStartNext ==
  /\ steps < MaxCycles
  /\ \E v \in CycleVersions, d \in CycleDates :
       /\ ChangelogEffect(update_changelog_main_start_next(changelog, v, d))
       /\ CycleCall("changelog_start_next", v, d)

NextCycles == CycleRelease \/ CycleStartNext

SpecCycles == InitCycles /\ [][NextCycles]_vars

-----------------------------------------------------------------------------
(* Sections and headers over successive runs *)

Date0 == <<"2", "0", "2", "4", "-", "1", "2", "-", "0", "1">>

\* the offsets at which a line of doc starts
LineStarts(doc) == {i \in 0..(Len(doc) - 1) : i = 0 \/ doc[i] = "\n"}

\* the line of doc that starts at offset i, without its line break
LineAt(doc, i) ==
  LET nls == {k \in (i + 1)..Len(doc) : doc[k] = "\n"}
  IN IF nls = {} THEN SubSeq(doc, i + 1, Len(doc)) ELSE SubSeq(doc, i + 1, Min(nls) - 1)

\* the version numbers a header of these documents can carry
HeaderNumbers == (Min(Versions) - 2)..(Min(Versions) + MaxCycles + 2)

\* the header lines of the shape "# v<digits>.<digits> (...)" these documents
\* hold: in-progress headers and dated headers
VersionHeaderLines ==
  {CanonHeader(n) : n \in HeaderNumbers}
    \cup {DatedHeader(n, d) : n \in HeaderNumbers, d \in {Date0, Date1, Date2}}

\* the start of the first header line at or after offset from, or the length
SpanEnd(doc, from) ==
  LET bs == {i \in LineStarts(doc) : i >= from /\ LineAt(doc, i) \in VersionHeaderLines}
  IN IF bs = {} THEN Len(doc) ELSE Min(bs)

\* the section [Located.end, e) of md behind its header, its first placeholder
\* resolved
ClosedBody(e) ==
  LET phs == PlaceholdersIn(md, Located.end, e)
  IN IF phs = {} THEN SubSeq(md, Located.end + 1, e)
     ELSE SubSeq(md, Located.end + 1, Min(phs))
            \o ResolvedLink(version - 1, version)
            \o SubSeq(md, Min(phs) + Len(Placeholder) + 1, e)

\* C21: when the in-progress header for V is found, the section the call edits
\* starts at the first character of that header line and ends at the start of
\* the first later header line "# v<digits>.<digits> (...)", dated or in
\* progress, or at the end of the document: the text before the start and from
\* the end on is kept, the header is dated, and a placeholder is resolved exactly
\* when it lies within that span.
C21_SectionSpan ==
  (op # "init" /\ Located.start # -1) =>
    /\ Located.start \in LineStarts(md)
    /\ changelog =
         SubSeq(md, 1, Located.start)
           \o (IF op = "changelog_start_next" THEN NewBlock(version) ELSE <<>>)
           \o DatedHeader(version, date_str)
           \o ClosedBody(SpanEnd(md, Located.end))
           \o SubSeq(md, SpanEnd(md, Located.end) + 1, Len(md))

\* the second run finds its section bounded by the in-progress header the first
\* run's new block brought in
C21_Witness ==
  /\ steps = 2
  /\ calls[1].name = "changelog_start_next"
  /\ Located.start # -1
  /\ SpanEnd(md, Located.end) < Len(md)
  /\ LineAt(md, SpanEnd(md, Located.end)) = CanonHeader(calls[1].version + 1)
  /\ LineAt(trail[1], SpanEnd(md, Located.end)) # CanonHeader(calls[1].version + 1)
  /\ PlaceholdersIn(md, Located.end, SpanEnd(md, Located.end)) # {}
  /\ PlaceholdersIn(md, SpanEnd(md, Located.end), Len(md)) # {}

-----------------------------------------------------------------------------
(* Header matching: the changelog functions on headers of other versions and *)
(* of other letter case                                                      *)

LowerParen == <<"(", "i", "n", " ", "p", "r", "o", "g", "r", "e", "s", "s", ")">>

UpperParen == <<"(", "I", "N", " ", "P", "R", "O", "G", "R", "E", "S", "S", ")">>

\* "# <letter><number> <status>\n"
HeaderLineOf(letter, number, status) ==
  <<"#", " ", letter>> \o number \o <<" ">> \o status \o <<"\n">>

\* the header lines of CHANGELOG.md, for release version v: the header of v in
\* three spellings of the status and with a capital V, and headers of the
\* versions 1<v>.0, <v>0.0 and <v>.1
HeaderBlocks(v) ==
  {HeaderLineOf("v", IntToStr(v) \o <<".", "0">>, InProgressParen),
   HeaderLineOf("v", IntToStr(v) \o <<".", "0">>, LowerParen),
   HeaderLineOf("v", IntToStr(v) \o <<".", "0">>, UpperParen),
   HeaderLineOf("V", IntToStr(v) \o <<".", "0">>, InProgressParen),
   HeaderLineOf("v", <<"1">> \o IntToStr(v) \o <<".", "0">>, InProgressParen),
   HeaderLineOf("v", IntToStr(v) \o <<"0", ".", "0">>, InProgressParen),
   HeaderLineOf("v", IntToStr(v) \o <<".", "1">>, InProgressParen),
   PlaceholderLine}

HeaderDocuments(v) ==
  {Concat(bs) : bs \in UNION {[1..n -> HeaderBlocks(v)] : n \in 0..MaxBlocks}}

InitHeaders ==
  /\ \E e \in ReleaseEvents :
       /\ version = e.version
       /\ prev_version = e.prev_version
       /\ date_str = e.date_str
  /\ changelog \in HeaderDocuments(version)
  /\ version_txt = target_fmt(version)
  /\ op = "init"
  /\ prev_op = "init"
  /\ md = <<>>
  /\ original = <<>>
  /\ changed = FALSE
  /\ compare_url = <<>>
  /\ new_value = <<>>
  /\ wrote = FALSE
  /\ steps = 0
  /\ ArithIdle
  /\ raised = ""
  /\ FlowIdle

SpecHeaders == InitHeaders /\ [][Next]_vars

\* the spellings of the status token
StatusForms == {InProgressParen, LowerParen, UpperParen}

\* the lines "# v<V>.0 (In progress)" with the status token in any letter case
TargetLines(v) ==
  {SubSeq(HeaderLineOf("v", IntToStr(v) \o <<".", "0">>, st), 1,
          Len(CanonHeader(v))) : st \in StatusForms}

\* the same lines, and those with a capital V
TargetLinesAnyCase(v) ==
  TargetLines(v)
    \cup {SubSeq(HeaderLineOf("V", IntToStr(v) \o <<".", "0">>, st), 1,
                 Len(CanonHeader(v))) : st \in StatusForms}

\* the offsets of the lines of md that are among lines
TargetsAmong(lines) == {i \in LineStarts(md) : LineAt(md, i) \in lines}

\* what the last call did with the header lines among lines as its targets:
\* without one it closes nothing; with one it dates the first and no other line
TargetsAre(lines) ==
  IF TargetsAmong(lines) = {}
  THEN changelog = (IF op = "changelog_start_next" THEN NewBlock(version) ELSE <<>>) \o md
  ELSE LET t == Min(TargetsAmong(lines))
           shift == IF op = "changelog_start_next" THEN Len(NewBlock(version)) ELSE 0
       IN /\ Located.start = t
          /\ lit_at(changelog, t + shift, DatedHeader(version, date_str) \o <<"\n">>)
          /\ SubSeq(changelog, 1, t) = SubSeq(md, 1, t)
          /\ \A i \in LineStarts(md) :
               (i # t /\ LineAt(md, i) \notin {Placeholder}) =>
                 \E k \in LineStarts(changelog) : LineAt(changelog, k) = LineAt(md, i)

-----------------------------------------------------------------------------
(* The document over successive release cycles *)

\* the offsets of the version header lines of doc, and of those in progress
HeaderStarts(doc) == {i \in LineStarts(doc) : LineAt(doc, i) \in VersionHeaderLines}

OpenStarts(doc) ==
  {i \in LineStarts(doc) : \E n \in HeaderNumbers : LineAt(doc, i) = CanonHeader(n)}

\* the version number of a version header line
HeaderNumber(line) ==
  CHOOSE n \in HeaderNumbers :
    \/ line = CanonHeader(n)
    \/ \E d \in {Date0, Date1, Date2} : line = DatedHeader(n, d)

\* the version headers of doc are in strictly descending order
Descending(doc) ==
  \A i, j \in HeaderStarts(doc) :
    i < j => HeaderNumber(LineAt(doc, i)) > HeaderNumber(LineAt(doc, j))

\* the only in-progress header of doc is its first line, for version v
TopOpen(doc, v) ==
  /\ OpenStarts(doc) = {0}
  /\ LineAt(doc, 0) = CanonHeader(v)

\* doc has a section for w dated d that holds the link v<w-1>.0...v<w>.0
ClosedWith(doc, w, d) ==
  \E i \in HeaderStarts(doc) :
    /\ LineAt(doc, i) = DatedHeader(w, d)
    /\ \E m \in i..(SpanEnd(doc, i + 1) - Len(ResolvedLink(w - 1, w))) :
         lit_at(doc, m, ResolvedLink(w - 1, w))

\* the calls so far are startNextCycle for V, V+1, ..., V+k-1
CycleChain ==
  /\ Len(calls) >= 1
  /\ \A j \in 1..Len(calls) :
       /\ calls[j].name = "changelog_start_next"
       /\ calls[j].version = calls[1].version + j - 1

\* what the claim says of the document after the k calls
CycleResult ==
  /\ TopOpen(changelog, calls[1].version + Len(calls))
  /\ Descending(changelog)
  /\ \A j \in 1..Len(calls) :
       ClosedWith(changelog, calls[1].version + j - 1, calls[j].date_str)

\* the top section of the first document holds the pending placeholder
TopPending ==
  PlaceholdersIn(trail[1], 0, SpanEnd(trail[1], Len(CanonHeader(calls[1].version)))) # {}

\* C23 (as claimed): from any document whose only in-progress section is the
\* top section for V, k successive startNextCycle calls for V, ..., V+k-1 leave
\* one in-progress header (the top one, for V+k), version headers in strictly
\* descending order, and each section closed on the way with the date of its
\* own cycle and the link v<W-1>.0...v<W>.0.
C23_AnyStartDocument ==
  (CycleChain /\ TopOpen(trail[1], calls[1].version)) => CycleResult

\* C23 (amended): the same, from a document whose version headers are in
\* strictly descending order and whose top section, the only one in progress,
\* holds the pending placeholder.
C23_CycleInvariant ==
  (/\ CycleChain
   /\ TopOpen(trail[1], calls[1].version)
   /\ Descending(trail[1])
   /\ TopPending) => CycleResult

C23_Witness ==
  /\ CycleChain
  /\ Len(calls) = 2
  /\ calls[1].date_str # calls[2].date_str
  /\ TopOpen(trail[1], calls[1].version)
  /\ Descending(trail[1])
  /\ TopPending
  /\ Cardinality(HeaderStarts(trail[1])) = 2
  /\ Cardinality(HeaderStarts(changelog)) = 4

\* the last two calls are startNextCycle with the same version and date
ReRun ==
  /\ Len(calls) >= 2
  /\ calls[Len(calls)].name = "changelog_start_next"
  /\ calls[Len(calls) - 1] = calls[Len(calls)]

\* C24: startNextCycle applied a second time, with the same version V and date,
\* to its own output leaves exactly one "# v<V+1>.0 (In progress)" header: the
\* second run adds no duplicate in-progress section.
C24_ReRunAddsNoSection ==
  (ReRun /\ InProgressHeaders(trail[Len(trail) - 2], version + 1) = {}) =>
    Cardinality(InProgressHeaders(changelog, version + 1)) = 1

-----------------------------------------------------------------------------
(* The dot-release and iOS runs: names, aborts and pushes *)

\* every component of a version string is a non-negative integer
AllNatural(text) ==
  \A k \in 1..Len(split_dot(text)) : IsNatural(split_dot(text)[k])

\* C25: for an ESR current version of two or three non-negative integer
\* components the derived base version has only non-negative integer
\* components, and neither the tag name nor the branch name built from it holds
\* a negative number.
C25_BaseWellFormed ==
  (/\ is_esr
   /\ pc = "esr_base_derived"
   /\ Len(split_dot(current_version)) \in {2, 3}
   /\ AllNatural(current_version)) =>
    /\ AllNatural(base_version)
    /\ \A k \in 1..Len(tag) : tag[k] # "-"
    /\ \A k \in 1..Len(relbranch) : relbranch[k] # "-"

\* the step is the dot-release run ending because the tag cannot be fetched or
\* resolved, or because the release branch cannot be created
TagOrBranchFails ==
  \/ pc = "esr_base_derived" /\ pc' = "failed"
  \/ pc = "esr_tag_resolved" /\ pc' = "esr_exit"

\* C26: when fetching or resolving the release tag fails, or creating the
\* release branch fails, the dot-release run ends: no version file written, no
\* commit made, no step after it.  No run of the dot-release workflow pushes.
C26_DotReleaseAborts ==
  /\ [][TagOrBranchFails =>
          /\ written' = {}
          /\ commits' = <<>>
          /\ version_txt' = version_txt
          /\ version_display_txt' = version_display_txt
          /\ milestone_txt' = milestone_txt]_vars
  /\ [][pc \notin {"esr_exit", "failed"}]_vars
  /\ [][(pc \in EsrPositions) => pushed = <<>> /\ pushed' = <<>>]_vars

\* git checkout -b failed after the tag was resolved
C26_Witness ==
  /\ pc = "esr_exit"
  /\ commit # ""
  /\ created_from = ""
  /\ written = {}
  /\ commits = <<>>
  /\ pushed = <<>>

\* the positions of ios-merge-day main
IosPositions ==
  {"ios_start", "ios_clean", "ios_on_main", "ios_version_read", "ios_next_calculated",
   "ios_branched", "ios_bumped", "ios_answered_y", "ios_answered_n"}

\* "release/v<current>"
ReleaseBranchName ==
  <<"r", "e", "l", "e", "a", "s", "e", "/", "v">> \o current_version

MainBranchName == <<"m", "a", "i", "n">>

\* the state each stage of the iOS run starts from, and what it leaves
IosSteps ==
  /\ pc' = "ios_clean" => pc = "ios_start"
  /\ pc' = "ios_on_main" => pc = "ios_clean"
  /\ current_version' # current_version =>
       pc = "ios_on_main" /\ ios_next_version = <<>>
  /\ ios_next_version' # ios_next_version =>
       pc = "ios_version_read" /\ relbranch = <<>>
  /\ relbranch' # relbranch =>
       /\ ios_next_version # <<>>
       /\ relbranch' = ReleaseBranchName
       /\ written = {}
       /\ commits = <<>>
       /\ head'.release = head.main
       /\ strip(readline(head.main)) = current_version
  /\ written' # written =>
       /\ relbranch # <<>>
       /\ written' = {"version.txt"}
       /\ version_txt' = ios_next_version \o <<"\n">>
  /\ commits' # commits =>
       /\ relbranch # <<>>
       /\ head'.main = ios_next_version \o <<"\n">>
       /\ head'.release = head.release
  /\ pushed' # pushed =>
       /\ pc = "ios_answered_y"
       /\ pushed = <<>>
       /\ pushed' \in {<<relbranch>>, <<relbranch, MainBranchName>>}

\* C27: in every run of ios-merge-day main the working tree is checked and main
\* updated before the version is read, the next version is computed before the
\* release branch is created, the branch is named release/v<current> and
\* created before the bumped version is written and committed on main, so the
\* release branch keeps the version.txt from before the bump, and the release
\* branch and then main are pushed only when the user answered y.
C27_IosOrder ==
  /\ [][(pc \in IosPositions) => IosSteps]_vars
  /\ [](("main" \in DOMAIN head /\ commits # <<>>) =>
          /\ strip(readline(head.release)) = current_version
          /\ head.main = ios_next_version \o <<"\n">>
          /\ head.release # head.main)

C27_Witness ==
  /\ pc = "done"
  /\ "main" \in DOMAIN head
  /\ relbranch = ReleaseBranchName
  /\ commits = <<commit_msg_ios>>
  /\ strip(readline(head.release)) = current_version
  /\ head.main = ios_next_version \o <<"\n">>
  /\ pushed = <<relbranch, MainBranchName>>

=============================================================================
